---------------------------- MODULE Spec2Model ----------------------------
(***************************************************************************)
(* A model of the httprouter request router: Router.Handle, Router.Lookup, *)
(* Router.allowed and Router.ServeHTTP of router.go, over the radix trie   *)
(* (one per method) that stores the routes.                                *)
(*                                                                         *)
(* A path is a sequence of one-character strings: <<"/", "a">> is "/a".    *)
(* Go indexes strings from 0, the model indexes sequences from 1.          *)
(***************************************************************************)
EXTENDS Integers, Sequences, FiniteSets, TLC

(***************************************************************************)
(* Strings                                                                 *)
(***************************************************************************)
Take(s, k) == SubSeq(s, 1, k)

Drop(s, k) == SubSeq(s, k + 1, Len(s))

HasPrefix(s, p) == Len(s) >= Len(p) /\ Take(s, Len(p)) = p

\* strings.IndexByte, 1-based; 0 when c does not occur in s
IndexByte(s, c) ==
    IF \E k \in 1..Len(s) : s[k] = c
    THEN CHOOSE k \in 1..Len(s) : s[k] = c /\ \A j \in 1..(k - 1) : s[j] # c
    ELSE 0

Min(a, b) == IF a < b THEN a ELSE b

longestCommonPrefix(a, b) ==
    LET m == Min(Len(a), Len(b))
    IN  CHOOSE k \in 0..m :
            /\ \A j \in 1..k : a[j] = b[j]
            /\ (k < m => a[k + 1] # b[k + 1])

\* the number of ':' and '*' of a pattern
countParams(path) == Cardinality({k \in 1..Len(path) : path[k] \in {":", "*"}})

(***************************************************************************)
(* Handles.  A Handle is a function value; the model names it, and records *)
(* whether Router.saveMatchedRoutePath wrapped it and with which pattern.  *)
(***************************************************************************)
NoHandle == [name |-> "nil", saved |-> FALSE, route |-> <<>>]

UserHandle(name) == [name |-> name, saved |-> FALSE, route |-> <<>>]

(***************************************************************************)
(* Trie nodes                                                              *)
(***************************************************************************)
EmptyNode ==
    [path |-> <<>>, indices |-> <<>>, wildChild |-> FALSE, nType |-> "static",
     priority |-> 0, children |-> <<>>, handle |-> NoHandle, fullPath |-> <<>>]

\* The result of an insertion: the subtree with the route, or the panic and the
\* subtree as the insertion had changed it by then (it works in place).
Ok(n) == [ok |-> TRUE, node |-> n, err |-> ""]

Fail(e, n) == [ok |-> FALSE, node |-> n, err |-> e]

\* the parent n with its k-th child replaced by the result r of inserting below it
descend(n, k, r) == [r EXCEPT !.node = [n EXCEPT !.children[k] = r.node]]

\* The first wildcard segment of path: its text, its 1-based start (0: none), and
\* whether it holds a single ':' or '*'.
findWildcard(path) ==
    LET starts == {k \in 1..Len(path) : path[k] \in {":", "*"}}
    IN  IF starts = {} THEN [wildcard |-> <<>>, i |-> 0, valid |-> FALSE]
        ELSE LET start == CHOOSE k \in starts : \A j \in starts : k <= j
                 ends  == {k \in (start + 1)..Len(path) : path[k] = "/"}
                 end   == IF ends = {} THEN Len(path) + 1
                          ELSE CHOOSE k \in ends : \A j \in ends : k <= j
             IN  [wildcard |-> SubSeq(path, start, end - 1),
                  i        |-> start,
                  valid    |-> \A k \in (start + 1)..(end - 1) : path[k] \notin {":", "*"}]

\* incrementChildPrio moving the child and leaving indices as they were
incrementChildPrioKeepingIndices(n, pos) ==
    LET prio   == n.children[pos].priority + 1
        cs     == [n.children EXCEPT ![pos].priority = prio]
        lower  == {k \in 1..pos : \A j \in k..(pos - 1) : cs[j].priority < prio}
        newPos == CHOOSE k \in lower : \A j \in lower : k <= j
        move(s) == Take(s, newPos - 1) \o <<s[pos]>> \o SubSeq(s, newPos, pos - 1)
                       \o Drop(s, pos)
    IN  [node |-> [n EXCEPT !.children = move(cs)], pos |-> newPos]

\* Increments the priority of child pos and moves it in front of the siblings of
\* lower priority, indices in lockstep.
incrementChildPrio(n, pos) ==
    LET prio   == n.children[pos].priority + 1
        cs     == [n.children EXCEPT ![pos].priority = prio]
        lower  == {k \in 1..pos : \A j \in k..(pos - 1) : cs[j].priority < prio}
        newPos == CHOOSE k \in lower : \A j \in lower : k <= j
        move(s) == Take(s, newPos - 1) \o <<s[pos]>> \o SubSeq(s, newPos, pos - 1)
                       \o Drop(s, pos)
    IN  [node |-> [n EXCEPT !.children = move(cs), !.indices = move(n.indices)],
         pos  |-> newPos]

\* Fills the empty (or wildcard-free) node n with path, creating the chain of
\* param / catch-all nodes the pattern asks for.
RECURSIVE insertChild(_, _, _, _)
insertChild(n, path, fullPath, handle) ==
    LET w == findWildcard(path)
    IN  IF w.i = 0
        THEN Ok([n EXCEPT !.path = path, !.handle = handle, !.fullPath = fullPath])
        ELSE IF ~w.valid
        THEN Fail("only one wildcard per path segment is allowed", n)
        ELSE IF Len(w.wildcard) < 2
        THEN Fail("wildcards must be named with a non-empty name", n)
        ELSE IF Len(n.children) > 0
        THEN Fail("wildcard segment conflicts with existing children", n)
        ELSE IF w.wildcard[1] = ":"
        THEN LET n1 == IF w.i > 1 THEN [n EXCEPT !.path = Take(path, w.i - 1)] ELSE n
                 p1 == Drop(path, w.i - 1)
                 child == [EmptyNode EXCEPT !.nType = "param", !.path = w.wildcard,
                                            !.priority = 1]
             IN  IF Len(w.wildcard) < Len(p1)
                 THEN LET sub == insertChild([EmptyNode EXCEPT !.priority = 1],
                                             Drop(p1, Len(w.wildcard)), fullPath, handle)
                      IN  [sub EXCEPT !.node =
                               [n1 EXCEPT
                                  !.wildChild = TRUE,
                                  !.children = <<[child EXCEPT !.children = <<sub.node>>]>>]]
                 ELSE Ok([n1 EXCEPT
                            !.wildChild = TRUE,
                            !.children = <<[child EXCEPT !.handle = handle,
                                                         !.fullPath = fullPath]>>])
        ELSE IF w.i - 1 + Len(w.wildcard) # Len(path)
        THEN Fail("catch-all routes are only allowed at the end of the path", n)
        ELSE IF Len(n.path) > 0 /\ n.path[Len(n.path)] = "/"
        THEN Fail("catch-all conflicts with existing handle for the path segment root", n)
        ELSE IF w.i < 2 \/ path[w.i - 1] # "/"
        THEN Fail("no / before catch-all", n)
        ELSE LET leaf == [EmptyNode EXCEPT !.path = Drop(path, w.i - 2),
                                           !.nType = "catchAll", !.handle = handle,
                                           !.priority = 1, !.fullPath = fullPath]
                 mid  == [EmptyNode EXCEPT !.wildChild = TRUE, !.nType = "catchAll",
                                           !.priority = 1, !.children = <<leaf>>]
             IN  Ok([n EXCEPT !.path = Take(path, w.i - 2), !.children = <<mid>>,
                              !.indices = <<"/">>])

\* splitEdge losing the handle of the node it splits
splitEdgeDroppingHandle(n, path, i) ==
    LET child == [path |-> Drop(n.path, i), indices |-> n.indices,
                  wildChild |-> n.wildChild, nType |-> "static",
                  priority |-> n.priority - 1, children |-> n.children,
                  handle |-> NoHandle, fullPath |-> <<>>]
    IN  [n EXCEPT !.children = <<child>>, !.indices = <<n.path[i + 1]>>,
                  !.path = Take(path, i), !.handle = NoHandle, !.fullPath = <<>>,
                  !.wildChild = FALSE]

\* Partial match: the node is split after its first i bytes; the suffix becomes a
\* child carrying the node's children and handle.
splitEdge(n, path, i) ==
    LET child == [path |-> Drop(n.path, i), indices |-> n.indices,
                  wildChild |-> n.wildChild, nType |-> "static",
                  priority |-> n.priority - 1, children |-> n.children,
                  handle |-> n.handle, fullPath |-> n.fullPath]
    IN  [n EXCEPT !.children = <<child>>, !.indices = <<n.path[i + 1]>>,
                  !.path = Take(path, i), !.handle = NoHandle, !.fullPath = <<>>,
                  !.wildChild = FALSE]

\* sameWildcard accepting a named parameter of any name
sameWildcardAnyName(c, p) == Len(p) >= Len(c.path) /\ c.nType # "catchAll"

\* whether the rest p of a new pattern begins with the wildcard of the existing
\* wildcard child c: the same name, ended by '/' or by the end of the pattern
sameWildcard(c, p) ==
    /\ Len(p) >= Len(c.path)
    /\ c.path = Take(p, Len(c.path))
    /\ c.nType # "catchAll"
    /\ (Len(c.path) >= Len(p) \/ p[Len(c.path) + 1] = "/")

\* setHandle replacing the handle a node already has
setHandleOverwriting(n, fullPath, handle) ==
    Ok([n EXCEPT !.handle = handle, !.fullPath = fullPath])

\* The end of the walk: the node of the path takes the handle unless it has one.
setHandle(n, fullPath, handle) ==
    IF n.handle # NoHandle
    THEN Fail("a handle is already registered for path", n)
    ELSE Ok([n EXCEPT !.handle = handle, !.fullPath = fullPath])

\* The walk of an insertion from node n0, whose priority the caller has incremented.
RECURSIVE walk(_, _, _, _)
walk(n0, path, fullPath, handle) ==
    LET i == longestCommonPrefix(path, n0.path)
        n == IF i < Len(n0.path) THEN splitEdge(n0, path, i) ELSE n0
        p == Drop(path, i)
    IN  IF i < Len(path)
        THEN IF n.wildChild
             THEN LET c == [n.children[1] EXCEPT !.priority = @ + 1]
                  IN  IF sameWildcard(c, p)
                      THEN descend(n, 1, walk(c, p, fullPath, handle))
                      ELSE Fail("conflicts with existing wildcard",
                                [n EXCEPT !.children[1] = c])
             ELSE IF n.nType = "param" /\ p[1] = "/" /\ Len(n.children) = 1
             THEN descend(n, 1, walk([n.children[1] EXCEPT !.priority = @ + 1],
                                     p, fullPath, handle))
             ELSE IF IndexByte(n.indices, p[1]) > 0
             THEN LET r == incrementChildPrio(n, IndexByte(n.indices, p[1]))
                  IN  descend(r.node, r.pos,
                              walk(r.node.children[r.pos], p, fullPath, handle))
             ELSE IF p[1] \notin {":", "*"}
             THEN LET r == incrementChildPrio(
                               [n EXCEPT !.indices = Append(@, p[1]),
                                         !.children = Append(@, EmptyNode)],
                               Len(n.indices) + 1)
                  IN  descend(r.node, r.pos,
                              insertChild(r.node.children[r.pos], p, fullPath, handle))
             ELSE insertChild(n, p, fullPath, handle)
        ELSE setHandle(n, fullPath, handle)

\* node.addRoute: the trie with the route added, or the panic and the trie it leaves
addRoute(root, path, handle) ==
    LET n == [root EXCEPT !.priority = @ + 1]
    IN  IF n.path = <<>> /\ n.indices = <<>>
        THEN LET r == insertChild(n, path, path, handle)
             IN  IF r.ok THEN Ok([r.node EXCEPT !.nType = "root"]) ELSE r
        ELSE walk(n, path, path, handle)

(***************************************************************************)
(* Params.  ps is the *Params a lookup returns: nil, or a buffer of the    *)
(* pool (its capacity cap) holding the captured (Key, Value) pairs.        *)
(***************************************************************************)
NilParams == [nil |-> TRUE, vals |-> <<>>, cap |-> 0]

Param(key, value) == [Key |-> key, Value |-> value]

\* saveParam cutting every value at its second '/', as if a catch-all were a
\* named parameter
saveParamOneSegment(ps, capture, bufCap, key, value) ==
    IF ~capture THEN ps
    ELSE LET buf == IF ps.nil THEN [nil |-> FALSE, vals |-> <<>>, cap |-> bufCap] ELSE ps
             cut == IF value = <<>> \/ IndexByte(Tail(value), "/") = 0 THEN value
                    ELSE Take(value, IndexByte(Tail(value), "/"))
         IN  [buf EXCEPT !.vals = Append(@, Param(key, cut))]

\* The capture of one parameter by getValue: nothing when the caller passed no
\* params function; the buffer is taken (params(), capacity bufCap) on the first
\* capture.
saveParam(ps, capture, bufCap, key, value) ==
    IF ~capture THEN ps
    ELSE LET buf == IF ps.nil THEN [nil |-> FALSE, vals |-> <<>>, cap |-> bufCap] ELSE ps
         IN  [buf EXCEPT !.vals = Append(@, Param(key, value))]

\* the end of a param value: the number of bytes before the next '/' or the path end
paramEnd(path) ==
    IF IndexByte(path, "/") = 0 THEN Len(path) ELSE IndexByte(path, "/") - 1

\* Found taking a buffer for every handle it returns
FoundWithBuffer(handle, ps) ==
    [handle |-> handle, ps |-> [ps EXCEPT !.nil = FALSE], tsr |-> FALSE]

Found(handle, ps) == [handle |-> handle, ps |-> ps, tsr |-> FALSE]

Missed(ps, tsr) == [handle |-> NoHandle, ps |-> ps, tsr |-> tsr]

\* node.getValue(path, params): (handle, ps, tsr).  capture says whether a params
\* function was passed, bufCap is the capacity of the buffer it would return.
RECURSIVE getValue(_, _, _, _, _)
getValue(n, path, capture, bufCap, ps) ==
    LET prefix == n.path
        rest   == Drop(path, Len(prefix))
    IN  IF Len(path) > Len(prefix) /\ HasPrefix(path, prefix)
        THEN IF ~n.wildChild
             THEN \* descend by first byte
                  IF IndexByte(n.indices, rest[1]) > 0
                  THEN getValue(n.children[IndexByte(n.indices, rest[1])], rest,
                                capture, bufCap, ps)
                  ELSE Missed(ps, rest = <<"/">> /\ n.handle # NoHandle)
             ELSE LET c == n.children[1]
                  IN  IF c.nType = "param"
                      THEN LET end == paramEnd(rest)
                               ps2 == saveParam(ps, capture, bufCap, Tail(c.path),
                                                Take(rest, end))
                           IN  IF end < Len(rest)
                               THEN IF Len(c.children) > 0
                                    THEN getValue(c.children[1], Drop(rest, end),
                                                  capture, bufCap, ps2)
                                    ELSE Missed(ps2, Len(rest) = end + 1)
                               ELSE IF c.handle # NoHandle
                               THEN Found(c.handle, ps2)
                               ELSE IF Len(c.children) = 1
                               THEN Missed(ps2,
                                           \/ /\ c.children[1].path = <<"/">>
                                              /\ c.children[1].handle # NoHandle
                                           \/ /\ c.children[1].path = <<>>
                                              /\ c.children[1].indices = <<"/">>)
                               ELSE Missed(ps2, FALSE)
                      ELSE \* catchAll
                           LET ps2 == saveParam(ps, capture, bufCap, Drop(c.path, 2), rest)
                           IN  [handle |-> c.handle, ps |-> ps2, tsr |-> FALSE]
        ELSE IF path = prefix
        THEN \* exact consumption
             IF n.handle # NoHandle
             THEN Found(n.handle, ps)
             ELSE IF path = <<"/">> /\ n.wildChild /\ n.nType # "root"
             THEN Missed(ps, TRUE)
             ELSE IF IndexByte(n.indices, "/") > 0
             THEN LET c == n.children[IndexByte(n.indices, "/")]
                  IN  Missed(ps, \/ Len(c.path) = 1 /\ c.handle # NoHandle
                                 \/ c.nType = "catchAll" /\ c.children[1].handle # NoHandle)
             ELSE Missed(ps, FALSE)
        ELSE \* nothing found: the path leaves this node's fragment
             Missed(ps, \/ path = <<"/">>
                        \/ /\ Len(prefix) = Len(path) + 1
                           /\ prefix[Len(path) + 1] = "/"
                           /\ path = Take(prefix, Len(prefix) - 1)
                           /\ n.handle # NoHandle)

(***************************************************************************)
(* CleanPath: one forward scan of p (r: the next byte to read) writing the *)
(* clean path out; trailing says whether a '/' is re-appended at the end.  *)
(***************************************************************************)
\* ".." element: out without its last segment (the '/' before it removed too)
backtrack(out) ==
    IF Len(out) > 1
    THEN LET ws == {w \in 1..(Len(out) - 1) : w = 1 \/ out[w + 1] = "/"}
         IN  Take(out, CHOOSE w \in ws : \A v \in ws : v <= w)
    ELSE out

RECURSIVE cleanScan(_, _, _, _)
cleanScan(p, r, out, trailing) ==
    LET n == Len(p)
    IN  IF r > n
        THEN IF trailing /\ Len(out) > 1 THEN Append(out, "/") ELSE out
        ELSE IF p[r] = "/"
        THEN cleanScan(p, r + 1, out, trailing)
        ELSE IF p[r] = "." /\ r = n
        THEN cleanScan(p, r + 1, out, TRUE)
        ELSE IF p[r] = "." /\ p[r + 1] = "/"
        THEN cleanScan(p, r + 2, out, trailing)
        ELSE IF p[r] = "." /\ p[r + 1] = "." /\ (r + 1 = n \/ p[r + 2] = "/")
        THEN cleanScan(p, r + 3, backtrack(out), trailing \/ r + 1 = n)
        ELSE LET ends == {k \in r..n : k = n \/ p[k + 1] = "/"}
                 end  == CHOOSE k \in ends : \A j \in ends : k <= j
                 sep  == IF Len(out) > 1 THEN <<"/">> ELSE <<>>
             IN  cleanScan(p, end + 1, out \o sep \o SubSeq(p, r, end), trailing)

CleanPath(p) ==
    IF p = <<>> THEN <<"/">>
    ELSE cleanScan(p, IF p[1] = "/" THEN 2 ELSE 1, <<"/">>,
                   Len(p) > 1 /\ p[Len(p)] = "/")

(***************************************************************************)
(* findCaseInsensitivePath.  The model's letters are single bytes; the     *)
(* case pairs are those of the letters the bounded paths use.              *)
(***************************************************************************)
ToLower(c) == CASE c = "A" -> "a" [] c = "U" -> "u" [] OTHER -> c

ToUpper(c) == CASE c = "a" -> "A" [] c = "u" -> "U" [] OTHER -> c

EqualFold(s, t) ==
    Len(s) = Len(t) /\ \A k \in 1..Len(s) : ToLower(s[k]) = ToLower(t[k])

FixedPath(ciPath) == [path |-> ciPath, found |-> TRUE]

NoFixedPath == [path |-> <<>>, found |-> FALSE]

RECURSIVE findCaseInsensitivePathRec(_, _, _, _)
findCaseInsensitivePathRec(n, path, ciPath, fixTrailingSlash) ==
    LET npLen == Len(n.path)
        rest  == Drop(path, npLen)
        ci    == ciPath \o n.path
    IN  IF Len(path) >= npLen
           /\ (npLen = 0 \/ EqualFold(SubSeq(path, 2, npLen), Tail(n.path)))
        THEN IF Len(rest) = 0
             THEN IF n.handle # NoHandle
                  THEN FixedPath(ci)
                  ELSE IF fixTrailingSlash /\ IndexByte(n.indices, "/") > 0
                  THEN LET c == n.children[IndexByte(n.indices, "/")]
                       IN  IF \/ Len(c.path) = 1 /\ c.handle # NoHandle
                              \/ c.nType = "catchAll" /\ c.children[1].handle # NoHandle
                           THEN FixedPath(Append(ci, "/"))
                           ELSE NoFixedPath
                  ELSE NoFixedPath
             ELSE IF ~n.wildChild
             THEN LET lo == ToLower(rest[1])
                      up == ToUpper(rest[1])
                      viaLo == IF IndexByte(n.indices, lo) > 0
                               THEN findCaseInsensitivePathRec(
                                        n.children[IndexByte(n.indices, lo)], rest, ci,
                                        fixTrailingSlash)
                               ELSE NoFixedPath
                  IN  IF viaLo.found
                      THEN viaLo
                      ELSE IF up # lo /\ IndexByte(n.indices, up) > 0
                      THEN findCaseInsensitivePathRec(
                               n.children[IndexByte(n.indices, up)], rest, ci,
                               fixTrailingSlash)
                      ELSE IF fixTrailingSlash /\ rest = <<"/">> /\ n.handle # NoHandle
                      THEN FixedPath(ci)
                      ELSE NoFixedPath
             ELSE LET c == n.children[1]
                  IN  IF c.nType = "param"
                      THEN LET end == paramEnd(rest)
                               ci2 == ci \o Take(rest, end)
                           IN  IF end < Len(rest)
                               THEN IF Len(c.children) > 0
                                    THEN findCaseInsensitivePathRec(
                                             c.children[1], Drop(rest, end), ci2,
                                             fixTrailingSlash)
                                    ELSE IF fixTrailingSlash /\ Len(rest) = end + 1
                                    THEN FixedPath(ci2)
                                    ELSE NoFixedPath
                               ELSE IF c.handle # NoHandle
                               THEN FixedPath(ci2)
                               ELSE IF /\ fixTrailingSlash
                                       /\ Len(c.children) = 1
                                       /\ c.children[1].path = <<"/">>
                                       /\ c.children[1].handle # NoHandle
                               THEN FixedPath(Append(ci2, "/"))
                               ELSE NoFixedPath
                      ELSE FixedPath(ci \o rest)
        ELSE IF fixTrailingSlash /\ path = <<"/">>
        THEN FixedPath(ciPath)
        ELSE IF /\ fixTrailingSlash
                /\ Len(path) + 1 = npLen
                /\ n.path[Len(path) + 1] = "/"
                /\ EqualFold(Tail(path), SubSeq(n.path, 2, Len(path)))
                /\ n.handle # NoHandle
        THEN FixedPath(ciPath \o n.path)
        ELSE NoFixedPath

findCaseInsensitivePath(n, path, fixTrailingSlash) ==
    findCaseInsensitivePathRec(n, path, <<>>, fixTrailingSlash)

(***************************************************************************)
(* The router.  router holds the fields of the Router struct (the callback *)
(* fields Options, MethodNotAllowed, NotFound and PanicHandler as "is      *)
(* set"), paramsPool as the capacities of the buffers the pool holds and   *)
(* paramsPoolNew as whether the pool's New function has been installed.    *)
(* out is what the caller of the last operation observed.                  *)
(***************************************************************************)
VARIABLES router, out

vars == <<router, out>>

MethodOptions == "OPTIONS"

MethodConnect == "CONNECT"

MethodGet == "GET"

MatchedRoutePathParam == <<"$matchedRoutePath">>

StatusMovedPermanently == 301

StatusPermanentRedirect == 308

StatusNoContent == 204

StatusMethodNotAllowed == 405

StatusNotFound == 404

\* the request path "*" of a server-wide OPTIONS request
Star == <<"*">>

\* New()
New ==
    [trees |-> <<>>, paramsPool |-> {}, paramsPoolNew |-> FALSE, maxParams |-> 0,
     SaveMatchedRoutePath |-> FALSE, RedirectTrailingSlash |-> TRUE,
     RedirectFixedPath |-> TRUE, HandleOptions |-> FALSE, Options |-> FALSE,
     HandleMethodNotAllowed |-> FALSE, MethodNotAllowed |-> FALSE,
     NotFound |-> FALSE, PanicHandler |-> FALSE, globalAllowed |-> ""]

\* what an operation shows its caller: the callbacks and handlers it invoked and the
\* replies it wrote (events), whether a handle it called panicked (raised), whether
\* the operation panicked, and what Lookup returned
Idle(op) ==
    [op |-> op, method |-> "", path |-> <<>>, panicked |-> FALSE, err |-> "",
     events |-> <<>>, handle |-> NoHandle, params |-> NilParams, tsr |-> FALSE,
     raised |-> FALSE]

Event(kind) ==
    [kind |-> kind, handle |-> "nil", params |-> NilParams, code |-> 0,
     location |-> <<>>, allow |-> "", by |-> ""]

\* the kinds of the events of a dispatch
Kinds(events) == {events[k].kind : k \in DOMAIN events}

(***************************************************************************)
(* Strings of methods: allowed() compares and joins method names.          *)
(***************************************************************************)
\* the method names of the model in ascending byte order
AsciiAscending == <<"CONNECT", "GET", "OPTIONS", "POST">>

Rank(m) == CHOOSE k \in 1..Len(AsciiAscending) : AsciiAscending[k] = m

\* a < b of two method names
StringLess(a, b) == Rank(a) < Rank(b)

\* the inner loop of the insertion sort: a[j] sinks below its greater neighbours
RECURSIVE sink(_, _)
sink(a, j) ==
    IF j > 1 /\ StringLess(a[j], a[j - 1])
    THEN sink([a EXCEPT ![j] = a[j - 1], ![j - 1] = a[j]], j - 1)
    ELSE a

\* insertionSort leaving the list as collected
unsorted(a, i) == a

RECURSIVE insertionSort(_, _)
insertionSort(a, i) == IF i > Len(a) THEN a ELSE insertionSort(sink(a, i), i + 1)

\* strings.Join(a, ", ")
RECURSIVE Join(_)
Join(a) ==
    IF Len(a) = 0 THEN ""
    ELSE IF Len(a) = 1 THEN a[1]
    ELSE a[1] \o ", " \o Join(Tail(a))

\* the orders in which a range over the map trees may visit its keys
MapOrders(trees) ==
    LET keys == DOMAIN trees
    IN  {f \in [1..Cardinality(keys) -> keys] :
            \A i, j \in 1..Cardinality(keys) : i # j => f[i] # f[j]}

\* allowed answering every request with the cached server-wide list
allowedFromCache(r, path, reqMethod, ord) ==
    IF reqMethod # ""
    THEN r.globalAllowed
    ELSE LET keep(m) == m # MethodOptions
             list == SelectSeq(ord, keep)
         IN  IF Len(list) > 0
             THEN Join(insertionSort(Append(list, MethodOptions), 2))
             ELSE ""

\* Router.allowed(path, reqMethod) on router r, the map visited in order ord
allowed(r, path, reqMethod, ord) ==
    IF path = Star /\ reqMethod # ""
    THEN r.globalAllowed
    ELSE LET keep(m) ==
                 IF path = Star
                 THEN m # MethodOptions
                 ELSE /\ m # reqMethod
                      /\ m # MethodOptions
                      /\ getValue(r.trees[m], path, FALSE, 0, NilParams).handle # NoHandle
             list == SelectSeq(ord, keep)
         IN  IF Len(list) > 0
             THEN Join(insertionSort(Append(list, MethodOptions), 2))
             ELSE ""

\* ByName returning the value of the last param with that key
RECURSIVE ByNameLast(_, _)
ByNameLast(ps, name) ==
    IF ps = <<>> THEN <<>>
    ELSE IF ps[Len(ps)].Key = name THEN ps[Len(ps)].Value
    ELSE ByNameLast(Take(ps, Len(ps) - 1), name)

\* Params.ByName(name): the value of the first param with that key, "" if none
RECURSIVE ByName(_, _)
ByName(ps, name) ==
    IF ps = <<>> THEN <<>>
    ELSE IF ps[1].Key = name THEN ps[1].Value
    ELSE ByName(Tail(ps), name)

\* Params.MatchedRoutePath()
MatchedRoutePath(ps) == ByName(ps, MatchedRoutePathParam)

(***************************************************************************)
(* The param pool                                                          *)
(***************************************************************************)
NoBuffer == [cap |-> 0, pooled |-> FALSE, nil |-> TRUE]

\* What paramsPool.Get() may return: a buffer of the pool, or a new one of the
\* current maxParams (the pool may drop its buffers at any time), or nil while no
\* New function is installed.
PoolGet(r) ==
    {[cap |-> c, pooled |-> TRUE, nil |-> FALSE] : c \in r.paramsPool}
        \cup (IF r.paramsPoolNew
              THEN {[cap |-> r.maxParams, pooled |-> FALSE, nil |-> FALSE]}
              ELSE {NoBuffer})

\* the pool after Get returned buf
taken(pool, buf) == IF buf.pooled THEN pool \ {buf.cap} ELSE pool

\* the pool after putParams of the buffer buf
putParams(pool, buf) == pool \cup {buf.cap}

\* Whether the lookup that captured ps into the buffer buf panicked: getParams
\* resets the slice behind a nil pointer, or getValue expands the slice beyond
\* the capacity of the buffer.
captureFails(ps, buf) == ~ps.nil /\ (buf.nil \/ Len(ps.vals) > buf.cap)

(***************************************************************************)
(* Router.Handle                                                           *)
(***************************************************************************)
\* saveMatchedRoutePath wrapping the handle without the path
saveMatchedRoutePathWithoutPath(path, handle) ==
    [handle EXCEPT !.saved = TRUE, !.route = <<>>]

\* Router.saveMatchedRoutePath(path, handle): the wrapped handle
saveMatchedRoutePath(path, handle) == [handle EXCEPT !.saved = TRUE, !.route = path]

Panicked(op, method, path, err) ==
    [Idle(op) EXCEPT !.method = method, !.path = path, !.panicked = TRUE, !.err = err]

Returned(op, method, path) == [Idle(op) EXCEPT !.method = method, !.path = path]

\* stored wrapping the handle whatever SaveMatchedRoutePath is
storedAlwaysWrapped(r, path, handle) == saveMatchedRoutePath(path, handle)

\* the handle Handle stores: wrapped when SaveMatchedRoutePath is set
stored(r, path, handle) ==
    IF r.SaveMatchedRoutePath THEN saveMatchedRoutePath(path, handle) ELSE handle

\* the router with a trie for method, a new one refreshing the cached global
\* allow list before the route is inserted; ord is the order in which
\* allowed("*", "") visits the map
withRoot(r, method, ord) ==
    IF method \in DOMAIN r.trees THEN r
    ELSE LET r1 == [r EXCEPT !.trees = (method :> EmptyNode) @@ r.trees]
         IN  [r1 EXCEPT !.globalAllowed = allowed(r1, Star, "", ord)]

\* maxParams raised to paramsCount, and the constructor of the pool installed
\* once maxParams is positive
updateMaxParams(r, paramsCount) ==
    LET maxParams == IF paramsCount > r.maxParams THEN paramsCount ELSE r.maxParams
    IN  [r EXCEPT !.maxParams = maxParams,
                  !.paramsPoolNew = @ \/ maxParams > 0]

\* the insertion of the route into the trie of method and what follows it
insert(r, method, path, handle, varsCount) ==
    LET added == addRoute(r.trees[method], path, handle)
    IN  IF added.ok
        THEN [router |-> updateMaxParams([r EXCEPT !.trees[method] = added.node],
                                         countParams(path) + varsCount),
              err    |-> ""]
        ELSE [router |-> [r EXCEPT !.trees[method] = added.node], err |-> added.err]

\* The router after Handle(method, path, handle) passed its argument checks, and
\* the failure of the insertion if it failed.
register(r, method, path, handle, ord) ==
    insert(withRoot(r, method, ord), method, path, stored(r, path, handle),
           IF r.SaveMatchedRoutePath THEN 1 ELSE 0)

\* Handle without its check of the handle
HandleUncheckedHandle(method, path, handle) ==
    IF method = ""
    THEN /\ out' = [Panicked("Handle", method, path, "method must not be empty")
                       EXCEPT !.handle = handle]
         /\ UNCHANGED router
    ELSE IF Len(path) < 1 \/ path[1] # "/"
    THEN /\ out' = [Panicked("Handle", method, path, "path must begin with '/'")
                       EXCEPT !.handle = handle]
         /\ UNCHANGED router
    ELSE \E ord \in (IF method \in DOMAIN router.trees THEN {<<>>}
                     ELSE MapOrders((method :> EmptyNode) @@ router.trees)) :
            LET reg == register(router, method, path, handle, ord)
            IN  /\ router' = reg.router
                /\ out' = [(IF reg.err = "" THEN Returned("Handle", method, path)
                            ELSE Panicked("Handle", method, path, reg.err))
                              EXCEPT !.handle = handle]

\* Handle(method, path, handle); out keeps the arguments of the call
Handle(method, path, handle) ==
    IF method = ""
    THEN /\ out' = [Panicked("Handle", method, path, "method must not be empty")
                       EXCEPT !.handle = handle]
         /\ UNCHANGED router
    ELSE IF Len(path) < 1 \/ path[1] # "/"
    THEN /\ out' = [Panicked("Handle", method, path, "path must begin with '/'")
                       EXCEPT !.handle = handle]
         /\ UNCHANGED router
    ELSE IF handle = NoHandle
    THEN /\ out' = [Panicked("Handle", method, path, "handle must not be nil")
                       EXCEPT !.handle = handle]
         /\ UNCHANGED router
    ELSE \E ord \in (IF method \in DOMAIN router.trees THEN {<<>>}
                     ELSE MapOrders((method :> EmptyNode) @@ router.trees)) :
            LET reg == register(router, method, path, handle, ord)
            IN  /\ router' = reg.router
                /\ out' = [(IF reg.err = "" THEN Returned("Handle", method, path)
                            ELSE Panicked("Handle", method, path, reg.err))
                              EXCEPT !.handle = handle]

(***************************************************************************)
(* Router.ServeFiles                                                       *)
(***************************************************************************)
FilepathSuffix == <<"/", "*", "f", "i", "l", "e", "p", "a", "t", "h">>

\* the handle ServeFiles registers: it serves the file named by the param filepath
FileServer == UserHandle("http.FileServer")

\* ServeFiles without its check of the path
ServeFilesUnchecked(path) == Handle(MethodGet, path, FileServer)

\* ServeFiles(path, root)
ServeFiles(path) ==
    IF Len(path) < 10 \/ SubSeq(path, Len(path) - 9, Len(path)) # FilepathSuffix
    THEN /\ out' = Panicked("ServeFiles", MethodGet, path,
                            "path must end with /*filepath")
         /\ UNCHANGED router
    ELSE Handle(MethodGet, path, FileServer)

(***************************************************************************)
(* Router.Lookup                                                           *)
(***************************************************************************)
\* what the lookup of path in the trie of method finds, with buffer buf at hand
lookup(r, method, path, buf) ==
    getValue(r.trees[method], path, TRUE, buf.cap, NilParams)

\* whether that lookup calls getParams
lookupGetsParams(r, method, path) ==
    /\ method \in DOMAIN r.trees
    /\ ~lookup(r, method, path, NoBuffer).ps.nil

Lookup(method, path) ==
    IF method \in DOMAIN router.trees
    THEN \E buf \in (IF lookupGetsParams(router, method, path) THEN PoolGet(router)
                     ELSE {NoBuffer}) :
            LET v == lookup(router, method, path, buf)
            IN  IF captureFails(v.ps, buf)
                THEN /\ out' = Panicked("Lookup", method, path,
                                        IF buf.nil THEN "nil pointer dereference"
                                        ELSE "slice bounds out of range")
                     /\ router' = [router EXCEPT !.paramsPool = taken(@, buf)]
                ELSE IF v.handle = NoHandle
                THEN /\ out' = [Returned("Lookup", method, path) EXCEPT !.tsr = v.tsr]
                     /\ router' = [router EXCEPT !.paramsPool =
                                       IF v.ps.nil THEN @
                                       ELSE putParams(taken(@, buf), buf)]
                ELSE /\ out' = [Returned("Lookup", method, path) EXCEPT
                                   !.handle = v.handle, !.params = v.ps, !.tsr = v.tsr]
                     /\ router' = [router EXCEPT !.paramsPool =
                                       IF v.ps.nil THEN @ ELSE taken(@, buf)]
    ELSE /\ out' = Returned("Lookup", method, path)
         /\ UNCHANGED router

(***************************************************************************)
(* Router.ServeHTTP                                                        *)
(***************************************************************************)
\* the end of a dispatch: the events it produced and the pool it leaves
Served(events, pool) == [events |-> events, panicked |-> FALSE, pool |-> pool]

\* Recovered with the deferred recv registered whether PanicHandler is set or not
RecoveredAlways(r, events, pool) ==
    Served(Append(events, [Event("PanicHandler") EXCEPT !.by = "PanicHandler"]), pool)

\* A panic inside ServeHTTP: recv hands it to PanicHandler if that is set (the
\* deferred call is registered only then), otherwise it reaches the caller.
Recovered(r, events, pool) ==
    IF r.PanicHandler
    THEN Served(Append(events, [Event("PanicHandler") EXCEPT !.by = "PanicHandler"]), pool)
    ELSE [events |-> events, panicked |-> TRUE, pool |-> pool]

\* the user's handle function called with params
called(handle, params) ==
    [Event("handle") EXCEPT !.handle = handle.name, !.params = params]

\* invoke with the wrapper putting its entry ahead of the captured params
invokePrepending(r, handle, params, buf, pool, handlerPanics) ==
    LET matched == Param(MatchedRoutePathParam, handle.route)
        ps      == IF handle.saved
                   THEN [nil |-> FALSE, vals |-> <<matched>> \o params.vals,
                         cap |-> IF params.nil THEN buf.cap ELSE params.cap]
                   ELSE params
    IN  IF handle.saved /\ params.nil /\ buf.nil THEN Recovered(r, <<>>, pool)
        ELSE IF handlerPanics
        THEN Recovered(r, <<called(handle, ps)>>,
                       IF handle.saved /\ params.nil THEN taken(pool, buf) ELSE pool)
        ELSE Served(<<called(handle, ps)>>,
                    IF handle.saved /\ params.nil THEN putParams(taken(pool, buf), buf)
                    ELSE pool)

\* handle(c): the registered handle, wrapped by saveMatchedRoutePath or not, called
\* with c.Params = params (nil or the captured ones).  buf is what getParams
\* returns to the wrapper, pool the pool before the call.
invoke(r, handle, params, buf, pool, handlerPanics) ==
    LET matched == Param(MatchedRoutePathParam, handle.route)
    IN  IF ~handle.saved
        THEN IF handlerPanics THEN Recovered(r, <<called(handle, params)>>, pool)
             ELSE Served(<<called(handle, params)>>, pool)
        ELSE IF params.nil
        THEN IF buf.nil
             THEN Recovered(r, <<>>, pool)
             ELSE LET ps == [nil |-> FALSE, vals |-> <<matched>>, cap |-> buf.cap]
                  IN  IF handlerPanics
                      THEN Recovered(r, <<called(handle, ps)>>, taken(pool, buf))
                      ELSE Served(<<called(handle, ps)>>,
                                  putParams(taken(pool, buf), buf))
        ELSE LET ps == [params EXCEPT !.vals = Append(@, matched)]
             IN  IF handlerPanics THEN Recovered(r, <<called(handle, ps)>>, pool)
                 ELSE Served(<<called(handle, ps)>>, pool)

\* http.Redirect(w, req, req.URL.String(), code) after req.URL.Path = location
redirect(code, location) ==
    [Event("redirect") EXCEPT !.code = code, !.location = location]

\* toggleTrailingSlash that only ever appends the '/'
appendTrailingSlash(path) == Append(path, "/")

\* the path with the '/' at its end toggled
toggleTrailingSlash(path) ==
    IF Len(path) > 1 /\ path[Len(path)] = "/" THEN Take(path, Len(path) - 1)
    ELSE Append(path, "/")

\* the NotFound callback or defaultNotFound
notFound(r) ==
    IF r.NotFound THEN [Event("NotFound") EXCEPT !.by = "NotFound"]
    ELSE [Event("NotFound") EXCEPT !.by = "defaultNotFound", !.code = StatusNotFound]

\* the Options callback or defaultOptions, fed the list of allowed methods
options(r, allow) ==
    IF r.Options THEN [Event("Options") EXCEPT !.by = "Options", !.allow = allow]
    ELSE [Event("Options") EXCEPT !.by = "defaultOptions", !.allow = allow,
                                  !.code = StatusNoContent]

\* the MethodNotAllowed callback or defaultMethodNotAllowed, fed the list
methodNotAllowed(r, allow) ==
    IF r.MethodNotAllowed
    THEN [Event("MethodNotAllowed") EXCEPT !.by = "MethodNotAllowed", !.allow = allow]
    ELSE [Event("MethodNotAllowed") EXCEPT !.by = "defaultMethodNotAllowed",
                                           !.allow = allow,
                                           !.code = StatusMethodNotAllowed]

\* isOptions answering for every OPTIONS request, HandleOptions set or not
isOptionsWhateverHandleOptions(r, method) == method = MethodOptions

\* whether the request is an OPTIONS request the router answers itself
isOptions(r, method) == method = MethodOptions /\ r.HandleOptions

\* fallThrough without the 405 reply
fallThroughWithoutMethodNotAllowed(r, method, path, ord) ==
    IF isOptions(r, method) /\ allowed(r, path, MethodOptions, ord) # ""
    THEN options(r, allowed(r, path, MethodOptions, ord))
    ELSE notFound(r)

\* fallThrough answering an OPTIONS request whatever the list of allowed methods
fallThroughOptionsWhateverAllowed(r, method, path, ord) ==
    IF isOptions(r, method)
    THEN options(r, allowed(r, path, MethodOptions, ord))
    ELSE IF r.HandleMethodNotAllowed /\ allowed(r, path, method, ord) # ""
    THEN methodNotAllowed(r, allowed(r, path, method, ord))
    ELSE notFound(r)

\* The part of ServeHTTP after the trie of the method: the automatic OPTIONS reply,
\* the 405 reply, NotFound.
fallThrough(r, method, path, ord) ==
    IF isOptions(r, method)
    THEN IF allowed(r, path, MethodOptions, ord) # ""
         THEN options(r, allowed(r, path, MethodOptions, ord))
         ELSE notFound(r)
    ELSE IF r.HandleMethodNotAllowed /\ allowed(r, path, method, ord) # ""
    THEN methodNotAllowed(r, allowed(r, path, method, ord))
    ELSE notFound(r)

\* fixable without the exception of CONNECT
fixableUnlessRoot(method, path) == path # <<"/">>

\* whether ServeHTTP tries to fix the path of a request it found no handle for
fixable(method, path) == method # MethodConnect /\ path # <<"/">>

\* redirectCode answering 301 whatever the method
redirectCodeMovedPermanently(method) == StatusMovedPermanently

\* the status of a redirect: 301 for GET, 308 for all other methods
redirectCode(method) ==
    IF method # MethodGet THEN StatusPermanentRedirect ELSE StatusMovedPermanently

\* fixedPath searching the path as requested, not cleaned
fixedPathUncleaned(r, root, path) ==
    findCaseInsensitivePath(root, path, r.RedirectTrailingSlash)

\* the case-insensitive lookup of the cleaned path
fixedPath(r, root, path) ==
    findCaseInsensitivePath(root, CleanPath(path), r.RedirectTrailingSlash)

\* noHandle preferring the automatic OPTIONS reply and the 405 reply to a redirect
noHandleAllowFirst(r, method, path, root, tsr, ord) ==
    IF fallThrough(r, method, path, ord).kind # "NotFound"
    THEN fallThrough(r, method, path, ord)
    ELSE IF fixable(method, path) /\ tsr /\ r.RedirectTrailingSlash
    THEN redirect(redirectCode(method), toggleTrailingSlash(path))
    ELSE IF fixable(method, path) /\ r.RedirectFixedPath
            /\ fixedPath(r, root, path).found
    THEN redirect(redirectCode(method), fixedPath(r, root, path).path)
    ELSE notFound(r)

\* ServeHTTP once the lookup found no handle in the trie root: a redirect, or
\* what follows the trie
noHandle(r, method, path, root, tsr, ord) ==
    IF fixable(method, path) /\ tsr /\ r.RedirectTrailingSlash
    THEN redirect(redirectCode(method), toggleTrailingSlash(path))
    ELSE IF fixable(method, path) /\ r.RedirectFixedPath
            /\ fixedPath(r, root, path).found
    THEN redirect(redirectCode(method), fixedPath(r, root, path).path)
    ELSE fallThrough(r, method, path, ord)

\* dispatch forgetting c.Params = *ps
dispatchWithoutParams(r, handle, ps, buf, pool, handlerPanics) ==
    invoke(r, handle, NilParams, IF ps.nil THEN buf ELSE NoBuffer, pool, handlerPanics)

\* ServeHTTP once the lookup found handle with the params ps
dispatch(r, handle, ps, buf, pool, handlerPanics) ==
    IF ~ps.nil
    THEN LET res == invoke(r, handle, ps, NoBuffer, pool, handlerPanics)
         IN  IF res.panicked \/ handlerPanics THEN res
             ELSE [res EXCEPT !.pool = putParams(@, buf)]
    ELSE invoke(r, handle, NilParams, buf, pool, handlerPanics)

\* ServeHTTP for the request (method, path) on router r: buf is what getParams
\* returns if it is called, ord the order in which allowed visits the map, and
\* handlerPanics whether the user's handle panics.
serve(r, method, path, buf, ord, handlerPanics) ==
    IF method \in DOMAIN r.trees
    THEN LET v    == getValue(r.trees[method], path, TRUE, buf.cap, NilParams)
             pool == IF v.ps.nil THEN r.paramsPool ELSE taken(r.paramsPool, buf)
         IN  IF captureFails(v.ps, buf)
             THEN Recovered(r, <<>>, pool)
             ELSE IF v.handle # NoHandle
             THEN dispatch(r, v.handle, v.ps, buf, pool, handlerPanics)
             ELSE Served(<<noHandle(r, method, path, r.trees[method], v.tsr, ord)>>,
                         pool)
    ELSE Served(<<fallThrough(r, method, path, ord)>>, r.paramsPool)

\* whether the dispatch of (method, path) calls getParams
serveGetsParams(r, method, path) ==
    /\ method \in DOMAIN r.trees
    /\ LET v == lookup(r, method, path, NoBuffer)
       IN  ~v.ps.nil \/ (v.handle # NoHandle /\ v.handle.saved)

\* whether the dispatch of (method, path) calls a registered handle
serveCallsHandle(r, method, path) ==
    /\ method \in DOMAIN r.trees
    /\ lookup(r, method, path, NoBuffer).handle # NoHandle

ServeHTTP(method, path) ==
    \E buf \in (IF serveGetsParams(router, method, path) THEN PoolGet(router)
                ELSE {NoBuffer}),
       ord \in (IF serveCallsHandle(router, method, path) THEN {<<>>}
                ELSE MapOrders(router.trees)),
       handlerPanics \in (IF serveCallsHandle(router, method, path) THEN BOOLEAN
                          ELSE {FALSE}) :
        LET res == serve(router, method, path, buf, ord, handlerPanics)
        IN  /\ out' = [Returned("ServeHTTP", method, path) EXCEPT
                           !.events = res.events, !.panicked = res.panicked,
                           !.raised = handlerPanics /\ "handle" \in Kinds(res.events)]
            /\ router' = [router EXCEPT !.paramsPool = res.pool]

(***************************************************************************)
(* The exported fields an application sets on its router                   *)
(***************************************************************************)
Settings ==
    {"SaveMatchedRoutePath", "RedirectTrailingSlash", "RedirectFixedPath",
     "HandleOptions", "Options", "HandleMethodNotAllowed", "MethodNotAllowed",
     "NotFound", "PanicHandler"}

Set(field, value) ==
    /\ router' = [router EXCEPT ![field] = value]
    /\ out' = Idle("Set")

(***************************************************************************)
(* Bounded environments                                                    *)
(***************************************************************************)
\* the number of registrations that may reach the tries
MaxRoutes == 2

\* the registrations that have reached the tries: addRoute first increments the
\* priority of the root, so the priority of a root counts them
RouteCount(r) ==
    LET RECURSIVE sum(_)
        sum(ms) == IF ms = {} THEN 0
                   ELSE LET m == CHOOSE x \in ms : TRUE
                        IN  r.trees[m].priority + sum(ms \ {m})
    IN  sum(DOMAIN r.trees)

\* the text of a path
RECURSIVE Text(_)
Text(path) == IF path = <<>> THEN "" ELSE path[1] \o Text(Tail(path))

\* the handle an application registers for (method, path): one function per route
HandleFor(method, path) == UserHandle(method \o " " \o Text(path))

Init == router = New /\ out = Idle("New")

\* Handle while the router holds fewer than MaxRoutes routes
Register(route) ==
    /\ RouteCount(router) < MaxRoutes
    /\ Handle(route[1], route[2], HandleFor(route[1], route[2]))

(***************************************************************************)
(* Dispatch: routes under three methods, requests that match, that differ  *)
(* in the trailing slash or in case, and the two redirect options.         *)
(***************************************************************************)
Routes ==
    ({"GET"} \X {<<"/", "a">>, <<"/", "a", "/">>, <<"/", "u", "/", ":", "n">>, <<"/">>})
        \cup ({"POST"} \X {<<"/", "a">>, <<"/", "u", "/", ":", "n">>})
        \cup ({"CONNECT"} \X {<<"/", "a">>})

Requests ==
    ({"GET"} \X {<<"/", "a">>, <<"/", "a", "/">>, <<"/", "A">>, <<"/", "A", "/">>,
                 <<"/", ".", ".", "/", "A">>, <<"/">>, <<>>, <<"/", "u", "/", "g">>,
                 <<"/", "u", "/", "g", "/">>, <<"/", "b">>})
        \cup ({"POST"} \X {<<"/", "a">>, <<"/", "a", "/">>, <<"/", "A">>,
                           <<"/", "u", "/", "g">>})
        \cup ({"CONNECT"} \X {<<"/", "a">>, <<"/", "a", "/">>, <<"/", "A">>, <<"/">>})

Next ==
    \/ \E route \in Routes : Register(route)
    \/ \E req \in Requests : ServeHTTP(req[1], req[2])
    \/ \E field \in {"RedirectTrailingSlash", "RedirectFixedPath"},
          value \in BOOLEAN : Set(field, value)

Spec == Init /\ [][Next]_vars
(***************************************************************************)
(* Handlers: the same patterns under two methods, handles stored with and  *)
(* without the matched route path, handles that panic.                     *)
(***************************************************************************)
HandlerRoutes == {"GET", "POST"} \X {<<"/", "a">>, <<"/", "u", "/", ":", "n">>}

HandlerRequests ==
    ({"GET"} \X {<<"/", "a">>, <<"/", "u", "/", "g">>, <<"/", "b">>})
        \cup ({"POST"} \X {<<"/", "a">>, <<"/", "u", "/", "g">>})

NextHandler ==
    \/ \E route \in HandlerRoutes : Register(route)
    \/ \E req \in HandlerRequests : ServeHTTP(req[1], req[2])
    \/ \E req \in HandlerRequests : Lookup(req[1], req[2])
    \/ \E field \in {"SaveMatchedRoutePath", "PanicHandler"},
          value \in BOOLEAN : Set(field, value)

SpecHandler == Init /\ [][NextHandler]_vars

(***************************************************************************)
(* Lookup: named parameters, a catch-all, static routes with and without   *)
(* the trailing slash, and a method that may have no trie.                 *)
(***************************************************************************)
LookupRoutes ==
    ({"GET"} \X {<<"/", "u", "/", ":", "n">>, <<"/", "u", "/", ":", "n", "/", "x">>,
                 <<"/", "f", "/", "*", "p">>, <<"/", "a">>, <<"/", "a", "/">>})
        \cup ({"POST"} \X {<<"/", "a">>})

LookupRequests ==
    ({"GET"} \X {<<"/", "u", "/", "g">>, <<"/", "u", "/">>,
                 <<"/", "u", "/", "g", "/", "c">>, <<"/", "u", "/", "g", "/">>,
                 <<"/", "u", "/", "/", "x">>, <<"/", "u", "/", "g", "/", "x">>,
                 <<"/", "f", "/", "a", "/", "b">>, <<"/", "f", "/">>, <<"/", "f">>,
                 <<"/", "a">>, <<"/", "a", "/">>, <<"/">>})
        \cup ({"POST"} \X {<<"/", "a">>, <<"/", "a", "/">>})

NextLookup ==
    \/ \E route \in LookupRoutes : Register(route)
    \/ \E req \in LookupRequests : Lookup(req[1], req[2])

SpecLookup == Init /\ [][NextLookup]_vars

(***************************************************************************)
(* Allow: the same path under several methods, OPTIONS among them, the     *)
(* server-wide path "*", and the options of the automatic replies.         *)
(***************************************************************************)
AllowRoutes ==
    ({"GET"} \X {<<"/", "a">>, <<"/", "b">>})
        \cup ({"POST"} \X {<<"/", "a">>, <<"/", "a", "/">>})
        \cup ({"OPTIONS"} \X {<<"/", "a">>, <<"/", "b">>, <<"/", ":", "n">>})

AllowPaths == {<<"/", "a">>, <<"/", "b">>, <<"/", "a", "/">>, Star}

AllowRequests ==
    ({"GET"} \X AllowPaths)
        \cup ({"POST"} \X {<<"/", "a">>, <<"/", "b">>, Star})
        \cup ({"OPTIONS"} \X {<<"/", "a">>, <<"/", "b">>, Star})
        \cup ({"CONNECT"} \X {<<"/", "a">>})

NextAllow ==
    \/ \E route \in AllowRoutes : Register(route)
    \/ \E req \in AllowRequests : ServeHTTP(req[1], req[2])
    \/ \E req \in AllowRequests : Lookup(req[1], req[2])
    \/ \E field \in {"HandleMethodNotAllowed", "HandleOptions", "MethodNotAllowed",
                     "Options"},
          value \in BOOLEAN : Set(field, value)

SpecAllow == Init /\ [][NextAllow]_vars

(***************************************************************************)
(* Registration: calls Handle rejects for their arguments, a pattern the   *)
(* trie rejects, a route registered twice with two handles, parameter      *)
(* names in conflict, and the requests that show what was registered.      *)
(***************************************************************************)
\* a second function an application may register for (method, path)
SecondHandleFor(method, path) == UserHandle(method \o " " \o Text(path) \o " #2")

RegistrationRoutes ==
    ({"GET"} \X {<<"/", "a">>, <<"/", "a", "/", ":", "x">>,
                 <<"/", "a", "/", ":", "y">>, <<"/", "a", "/", ":", "x", "/", "b">>})
        \cup ({"POST"} \X {<<"/", "a">>, <<"/", "a", "*", "p">>})
        \cup ({"OPTIONS"} \X {<<"/", "a">>})

\* the calls of Handle: every route with its handle, some with a second one, and
\* the calls with an empty method, an empty path, a path without its '/', no handle
HandleCalls ==
    {<<route[1], route[2], HandleFor(route[1], route[2])>> : route \in RegistrationRoutes}
        \cup {<<m, <<"/", "a">>, SecondHandleFor(m, <<"/", "a">>)>> : m \in {"GET", "POST"}}
        \cup {<<"", <<"/", "a">>, HandleFor("", <<"/", "a">>)>>,
              <<"GET", <<>>, HandleFor("GET", <<>>)>>,
              <<"GET", <<"a">>, HandleFor("GET", <<"a">>)>>,
              <<"GET", <<"/", "a">>, NoHandle>>}

RegistrationRequests ==
    ({"GET"} \X {<<"/", "a">>, <<"/", "a", "/", "g">>, <<"/", "a", "/", "g", "/", "b">>})
        \cup ({"POST"} \X {<<"/", "a">>})
        \cup ({"OPTIONS"} \X {<<"/", "a">>, Star})

\* the number of calls of Handle that may reach the tries
MaxRegistrations == 3

\* Handle called with the arguments call while fewer than MaxRegistrations calls
\* have reached the tries
HandleCall(call) ==
    /\ RouteCount(router) < MaxRegistrations
    /\ Handle(call[1], call[2], call[3])

NextRegistration ==
    \/ \E call \in HandleCalls : HandleCall(call)
    \/ \E req \in RegistrationRequests : ServeHTTP(req[1], req[2])
    \/ \E value \in BOOLEAN : Set("HandleOptions", value)

SpecRegistration == Init /\ [][NextRegistration]_vars

(***************************************************************************)
(* Order: the routes of the lookups registered in every order, three of    *)
(* them at a time, so that edges are split and siblings change places.     *)
(***************************************************************************)
OrderCalls ==
    {<<route[1], route[2], HandleFor(route[1], route[2])>> : route \in LookupRoutes}

NextOrder ==
    \/ \E call \in OrderCalls : HandleCall(call)
    \/ \E req \in LookupRequests : Lookup(req[1], req[2])

SpecOrder == Init /\ [][NextOrder]_vars

(***************************************************************************)
(* Params: ByName called on lists of params, keys repeated or missing.     *)
(***************************************************************************)
\* the length of the lists of params
MaxParamsLen == 3

ParamKeys == {<<"n">>, <<"p">>}

ParamValues == {<<>>, <<"g">>, <<"h">>}

\* the lists of params of at most MaxParamsLen entries
ParamLists ==
    UNION {[1..len -> [Key : ParamKeys, Value : ParamValues]] : len \in 0..MaxParamsLen}

\* ps.ByName(name): out keeps the list, the name and the value returned
ByNameCall(ps, name) ==
    /\ out' = [op |-> "ByName", params |-> ps, name |-> name,
               value |-> ByName(ps, name)]
    /\ UNCHANGED router

NextParams ==
    \E ps \in ParamLists, name \in ParamKeys \cup {<<"k">>} : ByNameCall(ps, name)

SpecParams == Init /\ [][NextParams]_vars

(***************************************************************************)
(* Files: ServeFiles called with paths that end in /*filepath, in conflict *)
(* with each other or not, and with paths that do not end so.              *)
(***************************************************************************)
FilesPaths ==
    {FilepathSuffix, <<"/", "s">> \o FilepathSuffix, <<"/", "s">>,
     <<"/", "*", "f", "i", "l", "e", "p", "a", "t">>,
     <<"/", "s", "*", "f", "i", "l", "e", "p", "a", "t", "h">>,
     FilepathSuffix \o <<"/">>, <<"/", "*", "a">> \o FilepathSuffix}

FilesRequests ==
    {"GET"} \X {<<"/", "a">>, <<"/", "s", "/", "a">>, <<"/", "s", "/", "a", "/", "b">>,
                <<"/", "s", "/">>, <<"/", "s">>, <<"/">>}

\* ServeFiles while fewer than MaxRoutes calls have reached the tries
ServeFilesCall(path) ==
    /\ RouteCount(router) < MaxRoutes
    /\ ServeFiles(path)

NextFiles ==
    \/ \E path \in FilesPaths : ServeFilesCall(path)
    \/ \E req \in FilesRequests : ServeHTTP(req[1], req[2])
    \/ \E value \in BOOLEAN : Set("SaveMatchedRoutePath", value)

SpecFiles == Init /\ [][NextFiles]_vars

(***************************************************************************)
(* Pool: routes of one and of two parameters registered between the        *)
(* dispatches, a pattern the trie rejects half-way, requests that capture  *)
(* and find a handle or none, and handles stored with the matched path.    *)
(***************************************************************************)
PoolRoutes ==
    {"GET"} \X {<<"/", ":", "n">>, <<"/", ":", "n", "/", ":", "p">>,
                <<"/", ":", "n", "/", ":">>}

PoolCalls == {<<route[1], route[2], HandleFor(route[1], route[2])>> : route \in PoolRoutes}

PoolRequests ==
    {"GET"} \X {<<"/", "g">>, <<"/", "g", "/">>, <<"/", "g", "/", "h">>,
                <<"/", "g", "/", "h", "/", "i">>, <<"/">>}

NextPool ==
    \/ \E call \in PoolCalls : HandleCall(call)
    \/ \E req \in PoolRequests : ServeHTTP(req[1], req[2])
    \/ \E req \in PoolRequests : Lookup(req[1], req[2])
    \/ \E field \in {"SaveMatchedRoutePath", "RedirectTrailingSlash"},
          value \in BOOLEAN : Set(field, value)

SpecPool == Init /\ [][NextPool]_vars

(***************************************************************************)
(* Concurrent dispatches.  Registration comes first; then MaxRequests      *)
(* goroutines run ServeHTTP step by step: the lookup (which takes a buffer *)
(* from the pool on its first capture), the wrapper of                     *)
(* saveMatchedRoutePath, the call of the handle, the release of the        *)
(* buffer.  Buffers have an identity and a backing array (mem) here, so    *)
(* that two goroutines holding one buffer would see each other's writes.   *)
(* While requests are in flight out holds them, the pool and the arrays.   *)
(***************************************************************************)
\* the number of goroutines serving requests
MaxRequests == 2

BufferIds == 1..(MaxRequests + 1)

IdleRequest ==
    [pc |-> "idle", method |-> "", path |-> <<>>, handlerPanics |-> FALSE,
     handle |-> NoHandle, nil |-> TRUE, buf |-> 0, len |-> 0, detached |-> FALSE,
     own |-> <<>>, events |-> <<>>, panicked |-> FALSE]

Dispatching ==
    [op |-> "Dispatch", reqs |-> [i \in 1..MaxRequests |-> IdleRequest],
     pool |-> {}, mem |-> [b \in BufferIds |-> <<>>]]

\* the requests in flight, the pool and the arrays: none before the first request
Flight == IF out.op = "Dispatch" THEN out ELSE Dispatching

\* the buffers the goroutines hold
HeldBuffers(f) == {f.reqs[i].buf : i \in 1..MaxRequests} \ {0}

\* What paramsPool.Get() may return: a buffer of the pool, or a new one (the least
\* identity not in use), or nil (0) while no New function is installed.
Gets(r, f) ==
    LET free == BufferIds \ (f.pool \cup HeldBuffers(f))
    IN  f.pool \cup (IF r.paramsPoolNew
                     THEN {b \in free : \A c \in free : b <= c}
                     ELSE {0})

\* the pool after Get returned b, with b still in it
poolAfterGetKeeping(pool, b) == pool

\* the pool after Get returned b
poolAfterGet(pool, b) == pool \ {b}

\* the router with its pool holding the buffers of f
withPool(r, f) == [r EXCEPT !.paramsPool = {r.maxParams : b \in f.pool}]

\* the goroutine i has finished with the outcome res of Recovered or Served
finished(req, res) ==
    [req EXCEPT !.pc = "done", !.events = res.events, !.panicked = res.panicked,
                !.buf = 0]

\* The step of the flight f to f2.  The array of a buffer no goroutine holds is
\* written as empty: getParams cuts the slice to length 0 before anything reads it.
Flies(f2) ==
    /\ out' = [f2 EXCEPT !.mem = [b \in BufferIds |->
                                    IF b \in HeldBuffers(f2) THEN f2.mem[b] ELSE <<>>]]
    /\ router' = withPool(router, f2)

\* a request arrives at goroutine i, which serves none
Begin(i, method, path, handlerPanics) ==
    /\ Flight.reqs[i].pc \in {"idle", "done"}
    /\ Flies([Flight EXCEPT !.reqs[i] =
                 [IdleRequest EXCEPT !.pc = "lookup", !.method = method, !.path = path,
                                     !.handlerPanics = handlerPanics]])

\* goroutine i after root.getValue(path, r.getParams) returned v, the captured
\* params in buffer b (0: none taken)
looked(r, req, v, b, ord) ==
    IF v.handle # NoHandle
    THEN [req EXCEPT !.pc = "found", !.handle = v.handle, !.nil = v.ps.nil,
                     !.buf = b, !.len = Len(v.ps.vals)]
    ELSE finished(req, Served(<<noHandle(r, req.method, req.path, r.trees[req.method],
                                         v.tsr, ord)>>, {}))

\* the lookup of goroutine i, and what follows it when no handle is found
LookupStep(i) ==
    LET f   == Flight
        req == f.reqs[i]
    IN  /\ req.pc = "lookup"
        /\ \E ord \in MapOrders(router.trees) :
             IF req.method \notin DOMAIN router.trees
             THEN Flies([f EXCEPT !.reqs[i] =
                            finished(req, Served(<<fallThrough(router, req.method,
                                                               req.path, ord)>>, {}))])
             ELSE LET v == getValue(router.trees[req.method], req.path, TRUE,
                                    router.maxParams, NilParams)
                  IN  IF v.ps.nil
                      THEN Flies([f EXCEPT !.reqs[i] = looked(router, req, v, 0, ord)])
                      ELSE \E b \in Gets(router, f) :
                             IF b = 0 \/ Len(v.ps.vals) > router.maxParams
                             THEN Flies([f EXCEPT
                                           !.pool = poolAfterGet(@, b),
                                           !.reqs[i] = finished(req, Recovered(router, <<>>, {}))])
                             ELSE Flies([f EXCEPT
                                           !.pool = poolAfterGet(@, b),
                                           !.mem[b] = v.ps.vals,
                                           !.reqs[i] = looked(router, req, v, b, ord)])

\* the params goroutine i sees through its slice
seen(f, req) ==
    IF req.detached THEN req.own
    ELSE SubSeq(f.mem[req.buf], 1,
                IF req.len < Len(f.mem[req.buf]) THEN req.len ELSE Len(f.mem[req.buf]))

\* the wrapper of saveMatchedRoutePath run by goroutine i before the handle
WrapStep(i) ==
    LET f       == Flight
        req     == f.reqs[i]
        matched == Param(MatchedRoutePathParam, req.handle.route)
    IN  /\ req.pc = "found"
        /\ IF ~req.handle.saved
           THEN Flies([f EXCEPT !.reqs[i].pc = "call"])
           ELSE IF req.nil
           THEN \E b \in Gets(router, f) :
                  IF b = 0
                  THEN Flies([f EXCEPT !.reqs[i] = finished(req, Recovered(router, <<>>, {}))])
                  ELSE Flies([f EXCEPT !.pool = poolAfterGet(@, b),
                                       !.mem[b] = <<matched>>,
                                       !.reqs[i] = [req EXCEPT !.pc = "call", !.nil = FALSE,
                                                               !.buf = b, !.len = 1]])
           ELSE IF req.len < router.maxParams
           THEN Flies([f EXCEPT !.mem[req.buf] = Append(seen(f, req), matched),
                                !.reqs[i] = [req EXCEPT !.pc = "call", !.len = @ + 1]])
           ELSE Flies([f EXCEPT !.reqs[i] =
                          [req EXCEPT !.pc = "call", !.detached = TRUE,
                                      !.own = Append(seen(f, req), matched)]])

\* the handle of the user called by goroutine i with the params it sees
CallStep(i) ==
    LET f      == Flight
        req    == f.reqs[i]
        params == IF req.nil THEN NilParams
                  ELSE [nil |-> FALSE, vals |-> seen(f, req), cap |-> router.maxParams]
    IN  /\ req.pc = "call"
        /\ IF req.handlerPanics
           THEN Flies([f EXCEPT !.reqs[i] =
                          finished(req, Recovered(router, <<called(req.handle, params)>>, {}))])
           ELSE Flies([f EXCEPT !.reqs[i] =
                          [req EXCEPT !.pc = "release",
                                      !.events = <<called(req.handle, params)>>]])

\* putParams by goroutine i after its handle returned
ReleaseStep(i) ==
    LET f   == Flight
        req == f.reqs[i]
    IN  /\ req.pc = "release"
        /\ Flies([f EXCEPT !.pool = IF req.buf = 0 THEN @ ELSE @ \cup {req.buf},
                           !.reqs[i] = [req EXCEPT !.pc = "done", !.buf = 0]])

ConcurrentRoutes == {"GET"} \X {<<"/", "u", "/", ":", "n">>, <<"/", "a">>}

ConcurrentRequests ==
    ({"GET"} \X {<<"/", "u", "/", "g">>, <<"/", "u", "/", "h">>, <<"/", "a">>,
                 <<"/", "u", "/", "g", "/">>})
        \cup ({"POST"} \X {<<"/", "a">>})

\* Handle before the first request
RegisterFirst(route) == out.op # "Dispatch" /\ Register(route)

\* SaveMatchedRoutePath set before the first request
SetFirst(value) == out.op # "Dispatch" /\ Set("SaveMatchedRoutePath", value)

NextConcurrent ==
    \/ \E route \in ConcurrentRoutes : RegisterFirst(route)
    \/ \E value \in BOOLEAN : SetFirst(value)
    \/ \E i \in 1..MaxRequests, req \in ConcurrentRequests, handlerPanics \in BOOLEAN :
          Begin(i, req[1], req[2], handlerPanics)
    \/ \E i \in 1..MaxRequests : LookupStep(i)
    \/ \E i \in 1..MaxRequests : WrapStep(i)
    \/ \E i \in 1..MaxRequests : CallStep(i)
    \/ \E i \in 1..MaxRequests : ReleaseStep(i)

SpecConcurrent == Init /\ [][NextConcurrent]_vars

(***************************************************************************)
(* What the claims speak of                                                *)
(***************************************************************************)
\* the calls of registered handles among the events
IsHandleEvent(e) == e.kind = "handle"

HandleEvents(events) == SelectSeq(events, IsHandleEvent)

\* params without the entry saveMatchedRoutePath adds
IsCaptured(p) == p.Key # MatchedRoutePathParam

Captured(vals) == SelectSeq(vals, IsCaptured)

\* the names of the handles registered in the trie below n
RECURSIVE HandlesOf(_)
HandlesOf(n) ==
    (IF n.handle # NoHandle THEN {n.handle.name} ELSE {})
        \cup UNION {HandlesOf(n.children[k]) : k \in DOMAIN n.children}

\* the patterns registered in the trie below n
RECURSIVE RoutesOf(_)
RoutesOf(n) ==
    (IF n.handle # NoHandle THEN {n.fullPath} ELSE {})
        \cup UNION {RoutesOf(n.children[k]) : k \in DOMAIN n.children}

\* whether the request (method, path) has a handle in the trie of its method
Matches(r, method, path) ==
    /\ method \in DOMAIN r.trees
    /\ getValue(r.trees[method], path, FALSE, 0, NilParams).handle # NoHandle

\* C1: a request (M, P) whose lookup in the trie of M yields a handle makes ServeHTTP
\* call exactly that handle, exactly once, with the params captured for P, and
\* produce no redirect, no automatic OPTIONS reply, no 405 and no 404; and ServeHTTP
\* never calls a handle that is registered only under another method.
C1_MatchedHandleInvokedOnce ==
    out.op = "ServeHTTP" =>
        /\ Matches(router, out.method, out.path) =>
              LET v == getValue(router.trees[out.method], out.path, TRUE, 0, NilParams)
                  calls == HandleEvents(out.events)
              IN  /\ Len(calls) = 1
                  /\ calls[1].handle = v.handle.name
                  /\ Captured(calls[1].params.vals) = v.ps.vals
                  /\ Kinds(out.events) \subseteq {"handle", "PanicHandler"}
        /\ \A k \in DOMAIN out.events :
              out.events[k].kind = "handle" =>
                  /\ out.method \in DOMAIN router.trees
                  /\ out.events[k].handle \in HandlesOf(router.trees[out.method])

\* POST /u/g was dispatched to the handle of POST /u/:n with n = g while GET holds
\* its own handle for the same pattern
C1_Witness ==
    /\ out.op = "ServeHTTP" /\ out.method = "POST" /\ out.path = <<"/", "u", "/", "g">>
    /\ "GET" \in DOMAIN router.trees
    /\ <<"/", "u", "/", ":", "n">> \in RoutesOf(router.trees["GET"])
    /\ Len(out.events) = 1
    /\ out.events[1].kind = "handle"
    /\ out.events[1].handle = "POST /u/:n"
    /\ out.events[1].params.vals = <<Param(<<"n">>, <<"g">>)>>

\* whether the trie of method holds the pattern
Registered(method, pattern) ==
    /\ method \in DOMAIN router.trees
    /\ pattern \in RoutesOf(router.trees[method])

\* Lookup(method, path) has just returned
LookedUp(method, path) ==
    out.op = "Lookup" /\ ~out.panicked /\ out.method = method /\ out.path = path

\* C2: a named parameter :n matches exactly one non-empty path segment and captures
\* it under the key n; with /u/:n registered, /u/g yields the handle and the params
\* [(n, g)], and /u/ and /u/g/c yield no handle.
C2_NamedParamOneNonEmptySegment ==
    /\ (out.op = "Lookup" /\ out.handle # NoHandle) =>
          \A k \in DOMAIN out.params.vals :
              out.params.vals[k].Key = <<"n">> =>
                  /\ out.params.vals[k].Value # <<>>
                  /\ IndexByte(out.params.vals[k].Value, "/") = 0
    /\ Registered("GET", <<"/", "u", "/", ":", "n">>) =>
          /\ LookedUp("GET", <<"/", "u", "/", "g">>) =>
                /\ out.handle.name = "GET /u/:n"
                /\ out.params.vals = <<Param(<<"n">>, <<"g">>)>>
          /\ LookedUp("GET", <<"/", "u", "/">>) => out.handle = NoHandle
          /\ LookedUp("GET", <<"/", "u", "/", "g", "/", "c">>) => out.handle = NoHandle

\* C3: a catch-all *p matches the whole rest of the path, the '/' before it
\* included, and captures it under the key p; with /f/*p registered, /f/a/b yields
\* p = /a/b, /f/ yields p = /, and /f yields no handle and the recommendation of
\* the trailing slash.
C3_CatchAllCapturesRest ==
    /\ (out.op = "Lookup" /\ out.handle # NoHandle) =>
          \A k \in DOMAIN out.params.vals :
              out.params.vals[k].Key = <<"p">> =>
                  LET value == out.params.vals[k].Value
                  IN  /\ k = Len(out.params.vals)
                      /\ Len(value) >= 1 /\ value[1] = "/"
                      /\ Len(value) <= Len(out.path)
                      /\ value = Drop(out.path, Len(out.path) - Len(value))
    /\ Registered("GET", <<"/", "f", "/", "*", "p">>) =>
          /\ LookedUp("GET", <<"/", "f", "/", "a", "/", "b">>) =>
                /\ out.handle.name = "GET /f/*p"
                /\ out.params.vals = <<Param(<<"p">>, <<"/", "a", "/", "b">>)>>
          /\ LookedUp("GET", <<"/", "f", "/">>) =>
                /\ out.handle.name = "GET /f/*p"
                /\ out.params.vals = <<Param(<<"p">>, <<"/">>)>>
          /\ LookedUp("GET", <<"/", "f">>) => out.handle = NoHandle /\ out.tsr

\* /f/a/b was looked up and the catch-all captured /a/b
C3_Witness ==
    /\ LookedUp("GET", <<"/", "f", "/", "a", "/", "b">>)
    /\ out.handle.name = "GET /f/*p"
    /\ out.params.vals = <<Param(<<"p">>, <<"/", "a", "/", "b">>)>>

\* the path with a single trailing slash added, and with it removed if it has one
SlashVariants(path) ==
    {Append(path, "/")}
        \cup (IF Len(path) >= 1 /\ path[Len(path)] = "/"
              THEN {Take(path, Len(path) - 1)} ELSE {})

\* C4: Lookup(M, P) reports the trailing-slash recommendation exactly when P has no
\* handle under M but P with a single trailing slash added or removed has one; a
\* router without a trie for M reports none and returns no handle.
C4_TsrIffSlashVariantMatches ==
    (out.op = "Lookup" /\ ~out.panicked) =>
        IF out.method \in DOMAIN router.trees
        THEN out.tsr <=> /\ out.handle = NoHandle
                         /\ \E q \in SlashVariants(out.path) :
                               Matches(router, out.method, q)
        ELSE out.handle = NoHandle /\ ~out.tsr

\* ServeHTTP(method, path) has just returned
WasServed(method, path) ==
    out.op = "ServeHTTP" /\ ~out.panicked /\ out.method = method /\ out.path = path

\* the lookup ServeHTTP did for the request it has just served, if the method has a trie
Looked == getValue(router.trees[out.method], out.path, FALSE, 0, NilParams)

\* C5: when the lookup misses with tsr = true, RedirectTrailingSlash is enabled, the
\* method is not CONNECT and the path is not "/", ServeHTTP answers with one redirect
\* whose location is the path without its final '/' if it is longer than one byte and
\* ends in '/', and with a '/' appended otherwise, and calls no handle.
C5_TrailingSlashRedirect ==
    ( /\ out.op = "ServeHTTP"
      /\ out.method \in DOMAIN router.trees
      /\ out.method # "CONNECT"
      /\ out.path # <<"/">>
      /\ router.RedirectTrailingSlash
      /\ Looked.handle = NoHandle
      /\ Looked.tsr )
    => /\ Len(out.events) = 1
       /\ out.events[1].kind = "redirect"
       /\ out.events[1].location =
              IF Len(out.path) > 1 /\ out.path[Len(out.path)] = "/"
              THEN SubSeq(out.path, 1, Len(out.path) - 1)
              ELSE out.path \o <<"/">>

\* GET /a/ was redirected to /a
C5_Witness ==
    /\ WasServed("GET", <<"/", "a", "/">>)
    /\ "GET" \in DOMAIN router.trees
    /\ router.RedirectTrailingSlash
    /\ Looked.handle = NoHandle /\ Looked.tsr
    /\ Len(out.events) = 1
    /\ out.events[1].kind = "redirect"
    /\ out.events[1].location = <<"/", "a">>

\* C6: every redirect of ServeHTTP, for the trailing slash or for the fixed path,
\* has status 301 when the method is GET and 308 for every other method.
C6_RedirectStatus ==
    out.op = "ServeHTTP" =>
        \A k \in DOMAIN out.events :
            out.events[k].kind = "redirect" =>
                out.events[k].code = IF out.method = "GET" THEN 301 ELSE 308

\* POST /A was redirected to /a, the fixed path, with status 308
C6_Witness ==
    /\ WasServed("POST", <<"/", "A">>)
    /\ Len(out.events) = 1
    /\ out.events[1].kind = "redirect"
    /\ out.events[1].location = <<"/", "a">>
    /\ out.events[1].code = 308

\* C7: when the lookup misses without a usable trailing-slash redirect,
\* RedirectFixedPath is enabled, the method is not CONNECT and the path is not "/",
\* ServeHTTP cleans the path and searches it case-insensitively, fixing the trailing
\* slash iff RedirectTrailingSlash is enabled; it redirects to the path found, and
\* issues no redirect if none is found.  With only GET /a registered and both
\* options enabled, GET /../A and GET /A/ are redirected to /a.
C7_FixedPathRedirect ==
    /\ ( /\ out.op = "ServeHTTP"
         /\ out.method \in DOMAIN router.trees
         /\ out.method # "CONNECT"
         /\ out.path # <<"/">>
         /\ router.RedirectFixedPath
         /\ Looked.handle = NoHandle
         /\ ~(Looked.tsr /\ router.RedirectTrailingSlash) )
       => LET fixed == findCaseInsensitivePath(router.trees[out.method],
                                               CleanPath(out.path),
                                               router.RedirectTrailingSlash)
          IN  IF fixed.found
              THEN /\ Len(out.events) = 1
                   /\ out.events[1].kind = "redirect"
                   /\ out.events[1].location = fixed.path
              ELSE "redirect" \notin Kinds(out.events)
    /\ ( /\ "GET" \in DOMAIN router.trees
         /\ RoutesOf(router.trees["GET"]) = {<<"/", "a">>}
         /\ router.RedirectFixedPath /\ router.RedirectTrailingSlash
         /\ \/ WasServed("GET", <<"/", ".", ".", "/", "A">>)
            \/ WasServed("GET", <<"/", "A", "/">>) )
       => /\ Len(out.events) = 1
          /\ out.events[1].kind = "redirect"
          /\ out.events[1].location = <<"/", "a">>

\* GET /../A was redirected to /a
C7_Witness ==
    /\ WasServed("GET", <<"/", ".", ".", "/", "A">>)
    /\ "GET" \in DOMAIN router.trees
    /\ RoutesOf(router.trees["GET"]) = {<<"/", "a">>}
    /\ Len(out.events) = 1
    /\ out.events[1].kind = "redirect"
    /\ out.events[1].location = <<"/", "a">>

\* C8: ServeHTTP never redirects a request whose method is CONNECT or whose path is
\* exactly "/", whatever the lookup recommends and whatever the options are.
C8_NoRedirectForConnectOrRoot ==
    (out.op = "ServeHTTP" /\ (out.method = "CONNECT" \/ out.path = <<"/">>))
        => "redirect" \notin Kinds(out.events)

\* CONNECT /a/ was served with CONNECT /a registered and RedirectTrailingSlash
\* enabled: the lookup recommends /a, and the reply is NotFound
C8_Witness ==
    /\ WasServed("CONNECT", <<"/", "a", "/">>)
    /\ "CONNECT" \in DOMAIN router.trees
    /\ router.RedirectTrailingSlash
    /\ Looked.handle = NoHandle /\ Looked.tsr
    /\ Kinds(out.events) = {"NotFound"}

\* the methods other than reqMethod and OPTIONS that have a handle for path
OtherMethods(path, reqMethod) ==
    {m \in DOMAIN router.trees \ {reqMethod, "OPTIONS"} : Matches(router, m, path)}

\* the Allow list of a set of methods: ascending, OPTIONS among them, joined
AllowList(methods) ==
    LET listed(m) == m \in methods \cup {"OPTIONS"}
    IN  IF methods = {} THEN "" ELSE Join(SelectSeq(AsciiAscending, listed))

\* the request just served ended neither in a handle nor in a redirect
Unresolved ==
    /\ out.op = "ServeHTTP" /\ ~out.panicked
    /\ Kinds(out.events) \cap {"handle", "redirect"} = {}

\* the reply to an unresolved request is the 405 with the computed list exactly when
\* another method than the request's and OPTIONS has a handle for the path, and
\* NotFound otherwise
MethodNotAllowedIffOtherMethod ==
    IF OtherMethods(out.path, out.method) # {}
    THEN /\ Len(out.events) = 1
         /\ out.events[1].kind = "MethodNotAllowed"
         /\ out.events[1].allow = AllowList(OtherMethods(out.path, out.method))
         /\ out.events[1].by = IF router.MethodNotAllowed THEN "MethodNotAllowed"
                               ELSE "defaultMethodNotAllowed"
    ELSE Kinds(out.events) = {"NotFound"}

C10_AllowedList ==
    /\ \A path \in AllowPaths \ {Star} :
          \A reqMethod \in {"GET", "POST", "OPTIONS", "CONNECT"} :
              \A ord \in MapOrders(router.trees) :
                  allowed(router, path, reqMethod, ord)
                      = AllowList(OtherMethods(path, reqMethod))
    /\ (out.op = "ServeHTTP" /\ out.path # Star) =>
          \A k \in DOMAIN out.events :
              out.events[k].kind \in {"MethodNotAllowed", "Options"} =>
                  /\ out.events[k].allow # ""
                  /\ out.events[k].allow = AllowList(OtherMethods(out.path, out.method))

\* CONNECT /a was served while GET and POST hold /a: the 405 lists GET, OPTIONS, POST
C10_Witness ==
    /\ WasServed("CONNECT", <<"/", "a">>)
    /\ OtherMethods(<<"/", "a">>, "CONNECT") = {"GET", "POST"}
    /\ Len(out.events) = 1
    /\ out.events[1].kind = "MethodNotAllowed"
    /\ out.events[1].allow = "GET, OPTIONS, POST"


\* the methods other than OPTIONS that have at least one registered route
MethodsWithRoute ==
    {m \in DOMAIN router.trees \ {"OPTIONS"} : RoutesOf(router.trees[m]) # {}}

\* C11: after any sequence of calls of Handle, allowed("*", m) for a non-empty m is
\* the ascending, ", "-joined list of every method other than OPTIONS that has at
\* least one registered route, plus OPTIONS, and the empty string when no such
\* method has a route.
C11_GlobalAllowedList ==
    \A m \in {"GET", "POST", "OPTIONS", "CONNECT"} :
        \A ord \in MapOrders(router.trees) :
            allowed(router, Star, m, ord) = AllowList(MethodsWithRoute)

\* C12: with HandleOptions enabled, an OPTIONS request that ends neither in a
\* registered handle nor in a redirect is answered by the Options callback, or by
\* the default OPTIONS reply when none is set, fed with the allow list exactly when
\* that list is non-empty: the cached server-wide list for the path "*", the list
\* of the other methods with a handle for the path otherwise.  When the list is
\* empty the request goes to NotFound.
C12_AutomaticOptions ==
    (Unresolved /\ out.method = "OPTIONS" /\ router.HandleOptions) =>
        LET list == IF out.path = Star THEN router.globalAllowed
                    ELSE AllowList(OtherMethods(out.path, "OPTIONS"))
        IN  IF list # ""
            THEN /\ Len(out.events) = 1
                 /\ out.events[1].kind = "Options"
                 /\ out.events[1].allow = list
                 /\ out.events[1].by = IF router.Options THEN "Options"
                                       ELSE "defaultOptions"
            ELSE Kinds(out.events) = {"NotFound"}

\* OPTIONS /a was served with the Options callback set while GET and POST hold /a
C12_Witness ==
    /\ WasServed("OPTIONS", <<"/", "a">>)
    /\ router.HandleOptions /\ router.Options
    /\ OtherMethods(<<"/", "a">>, "OPTIONS") = {"GET", "POST"}
    /\ Len(out.events) = 1
    /\ out.events[1].kind = "Options"
    /\ out.events[1].by = "Options"
    /\ out.events[1].allow = "GET, OPTIONS, POST"

\* C13: with HandleOptions enabled, an OPTIONS request whose path has a handle in
\* the trie of OPTIONS calls that handle, once, and never the Options callback or
\* the default OPTIONS reply; and an OPTIONS request for "*", while the server-wide
\* list is not empty, gets the automatic reply with that list and calls no handle.
C13_OptionsHandlerPriority ==
    (out.op = "ServeHTTP" /\ out.method = "OPTIONS" /\ router.HandleOptions) =>
        /\ Matches(router, "OPTIONS", out.path) =>
              /\ Len(out.events) >= 1
              /\ out.events[1].kind = "handle"
              /\ out.events[1].handle = Looked.handle.name
              /\ Len(HandleEvents(out.events)) = 1
              /\ "Options" \notin Kinds(out.events)
        /\ (out.path = Star /\ router.globalAllowed # "") =>
              /\ Len(out.events) = 1
              /\ out.events[1].kind = "Options"
              /\ out.events[1].allow = router.globalAllowed

\* C14: a call of Handle with an empty method, with a path that is empty or does not
\* begin with '/', or with no handle panics and leaves the tries, maxParams, the
\* param pool and the cached allow list of the router as they were.
C14_InvalidArgumentsPanic ==
    [][(/\ out'.op = "Handle"
        /\ \/ out'.method = ""
           \/ Len(out'.path) = 0
           \/ out'.path[1] # "/"
           \/ out'.handle = NoHandle)
       => /\ out'.panicked
          /\ router'.trees = router.trees
          /\ router'.maxParams = router.maxParams
          /\ router'.paramsPool = router.paramsPool
          /\ router'.paramsPoolNew = router.paramsPoolNew
          /\ router'.globalAllowed = router.globalAllowed]_vars

\* Handle("GET", "/a", nil) has panicked on a router that holds GET /a/:x and a
\* buffer in its pool
C14_Witness ==
    /\ out.op = "Handle" /\ out.panicked
    /\ out.method = "GET" /\ out.path = <<"/", "a">> /\ out.handle = NoHandle
    /\ "GET" \in DOMAIN router.trees
    /\ RoutesOf(router.trees["GET"]) = {<<"/", "a", "/", ":", "x">>}
    /\ router.maxParams = 1 /\ router.paramsPool = {1}
    /\ router.globalAllowed = "GET, OPTIONS"

\* the names of the handles the trie below n stores for the pattern
RECURSIVE HandlesAt(_, _)
HandlesAt(n, pattern) ==
    (IF n.handle # NoHandle /\ n.fullPath = pattern THEN {n.handle.name} ELSE {})
        \cup UNION {HandlesAt(n.children[k], pattern) : k \in DOMAIN n.children}

\* the names of the handles router r stores for (method, pattern)
StoredFor(r, method, pattern) ==
    IF method \in DOMAIN r.trees THEN HandlesAt(r.trees[method], pattern) ELSE {}

\* the step is a call of Handle that passed the checks of its arguments
HandleStep ==
    /\ out'.op = "Handle"
    /\ out'.method # "" /\ Len(out'.path) > 0 /\ out'.path[1] = "/"
    /\ out'.handle # NoHandle

\* C15: the router stores at most one handle per (method, pattern).  A call of
\* Handle for a pattern its method already holds fails with the route conflict "a
\* handle is already registered for path"; a call that succeeds stores its handle
\* for its (method, pattern); no call changes the handle stored for any (method,
\* pattern) registered before, so a pattern held by several methods keeps one
\* handle per method; the static pattern /a is accepted by a method that does not
\* hold it whatever the other methods hold.  A request for a registered static
\* pattern calls the handle stored for it under its method.
C15_OneHandlePerRoute ==
    /\ [][HandleStep =>
            /\ StoredFor(router, out'.method, out'.path) # {} =>
                  /\ out'.panicked
                  /\ out'.err = "a handle is already registered for path"
            /\ (StoredFor(router, out'.method, out'.path) = {}
                    /\ out'.path = <<"/", "a">>) => ~out'.panicked
            /\ (StoredFor(router, out'.method, out'.path) = {} /\ ~out'.panicked) =>
                  StoredFor(router', out'.method, out'.path) = {out'.handle.name}
            /\ \A m \in DOMAIN router.trees :
                  \A pattern \in RoutesOf(router.trees[m]) :
                      /\ Cardinality(StoredFor(router, m, pattern)) = 1
                      /\ StoredFor(router', m, pattern) = StoredFor(router, m, pattern)
         ]_vars
    /\ []((out.op = "ServeHTTP" /\ StoredFor(router, out.method, out.path) # {}) =>
            /\ Len(HandleEvents(out.events)) = 1
            /\ out.events[1].kind = "handle"
            /\ StoredFor(router, out.method, out.path) = {out.events[1].handle})

\* Handle("GET", "/a", second) has failed with the conflict on a router where GET
\* and POST each hold /a with their own first handle
C15_Witness ==
    /\ out.op = "Handle" /\ out.panicked
    /\ out.err = "a handle is already registered for path"
    /\ out.method = "GET" /\ out.path = <<"/", "a">>
    /\ out.handle = SecondHandleFor("GET", <<"/", "a">>)
    /\ StoredFor(router, "GET", <<"/", "a">>) = {"GET /a"}
    /\ StoredFor(router, "POST", <<"/", "a">>) = {"POST /a"}

\* the name of the named parameter a pattern has after /a/, "" if it has none there
ParamName(pattern) ==
    IF Len(pattern) >= 5 /\ pattern[4] = ":" THEN pattern[5] ELSE ""

\* the patterns registered under method
Held(r, method) ==
    IF method \in DOMAIN r.trees THEN RoutesOf(r.trees[method]) ELSE {}

\* the patterns registered under method whose parameter after /a/ has another name
\* than that of pattern
OtherNames(r, method, pattern) ==
    {q \in Held(r, method) : ParamName(q) \notin {"", ParamName(pattern)}}

\* C16: two named parameters at the same position of patterns of one method carry
\* the same name.  A call of Handle for a pattern with a named parameter after /a/
\* fails with the route conflict "conflicts with existing wildcard", and registers
\* nothing, when its method holds a pattern with a parameter of another name at
\* that position (GET /a/:y after GET /a/:x); it succeeds when the patterns its
\* method holds use the same name there or none, and the pattern is new (GET
\* /a/:x/b after GET /a/:x).
C16_SameParamName ==
    [][(HandleStep /\ ParamName(out'.path) # "") =>
          /\ OtherNames(router, out'.method, out'.path) # {} =>
                /\ out'.panicked
                /\ out'.err = "conflicts with existing wildcard"
                /\ Held(router', out'.method) = Held(router, out'.method)
          /\ (OtherNames(router, out'.method, out'.path) = {}
                  /\ out'.path \notin Held(router, out'.method)) =>
                /\ ~out'.panicked
                /\ Held(router', out'.method)
                       = Held(router, out'.method) \cup {out'.path}
      ]_vars

\* GET /a/:x and GET /a/:x/b are registered and Handle("GET", "/a/:y", h) has
\* failed with the conflict
C16_Witness ==
    /\ out.op = "Handle" /\ out.panicked
    /\ out.err = "conflicts with existing wildcard"
    /\ out.method = "GET" /\ out.path = <<"/", "a", "/", ":", "y">>
    /\ Held(router, "GET") = {<<"/", "a", "/", ":", "x">>,
                              <<"/", "a", "/", ":", "x", "/", "b">>}

\* C17: when a handle called by ServeHTTP panics, the panic is handed to
\* PanicHandler, once, and does not reach the caller of ServeHTTP if PanicHandler is
\* set; if it is not set the panic reaches the caller and PanicHandler is not
\* called.  When no handle panics PanicHandler is not called.
C17_PanicHandler ==
    out.op = "ServeHTTP" =>
        IF out.raised
        THEN IF router.PanicHandler
             THEN /\ ~out.panicked
                  /\ Len(out.events) = 2
                  /\ out.events[1].kind = "handle"
                  /\ out.events[2].kind = "PanicHandler"
             ELSE /\ out.panicked
                  /\ "PanicHandler" \notin Kinds(out.events)
        ELSE /\ ~out.panicked
             /\ "PanicHandler" \notin Kinds(out.events)

\* the handle of GET /u/:n panicked while PanicHandler was set
C17_Witness ==
    /\ WasServed("GET", <<"/", "u", "/", "g">>)
    /\ out.raised /\ router.PanicHandler /\ ~out.panicked
    /\ Kinds(out.events) = {"handle", "PanicHandler"}

\* the handles, as stored, the trie below n holds for the pattern
RECURSIVE StoredAt(_, _)
StoredAt(n, pattern) ==
    (IF n.handle # NoHandle /\ n.fullPath = pattern THEN {n.handle} ELSE {})
        \cup UNION {StoredAt(n.children[k], pattern) : k \in DOMAIN n.children}

\* the step is a call of Handle that registered its route
Registers == HandleStep /\ ~out'.panicked

\* C18: a route registered while SaveMatchedRoutePath is enabled is stored with the
\* wrapper of saveMatchedRoutePath, and every call ServeHTTP makes of a handle so
\* stored, for a pattern with parameters or without, delivers params whose
\* MatchedRoutePath() is the pattern the called handle was registered for, as it was
\* registered.  (No pattern names a parameter with the reserved key.)
C18_MatchedRoutePath ==
    /\ [][(Registers /\ router.SaveMatchedRoutePath) =>
            \A h \in StoredAt(router'.trees[out'.method], out'.path) : h.saved]_vars
    /\ []((out.op = "ServeHTTP" /\ HandleEvents(out.events) # <<>>
              /\ Looked.handle.saved) =>
            /\ ~out.events[1].params.nil
            /\ out.events[1].handle
                  = out.method \o " " \o Text(MatchedRoutePath(out.events[1].params.vals)))

\* GET /a and GET /u/:n were registered with the option set; GET /u/g was served and
\* its handle saw n = g and the matched route path /u/:n
C18_Witness ==
    /\ WasServed("GET", <<"/", "u", "/", "g">>)
    /\ "GET" \in DOMAIN router.trees
    /\ \A h \in StoredAt(router.trees["GET"], <<"/", "a">>) : h.saved
    /\ StoredAt(router.trees["GET"], <<"/", "a">>) # {}
    /\ Len(out.events) = 1
    /\ out.events[1].handle = "GET /u/:n"
    /\ ByName(out.events[1].params.vals, <<"n">>) = <<"g">>
    /\ MatchedRoutePath(out.events[1].params.vals) = <<"/", "u", "/", ":", "n">>

\* whether params hold an entry under the key of the matched route path
HasMatchedRoutePath(vals) ==
    \E k \in DOMAIN vals : vals[k].Key = MatchedRoutePathParam

\* C19: over any sequence of settings of SaveMatchedRoutePath and registrations, a
\* route is stored with the wrapper exactly when the option was set at the time of
\* its registration, and no later step changes how it is stored; a called handle
\* receives the $matchedRoutePath entry exactly when its route is stored with the
\* wrapper, whatever the option is at the time of the request.
C19_OnlyWhereRegisteredWithOption ==
    /\ [][Registers =>
            \A h \in StoredAt(router'.trees[out'.method], out'.path) :
                h.saved = router.SaveMatchedRoutePath]_vars
    /\ [][\A m \in DOMAIN router.trees :
            \A pattern \in RoutesOf(router.trees[m]) :
                StoredAt(router'.trees[m], pattern) = StoredAt(router.trees[m], pattern)
         ]_vars
    /\ []((out.op = "ServeHTTP" /\ HandleEvents(out.events) # <<>>) =>
            (HasMatchedRoutePath(out.events[1].params.vals) <=> Looked.handle.saved))

\* GET /a was registered with the option set and POST /a with the option unset; the
\* option is unset and the handle of GET /a still receives the entry
C19_Witness ==
    /\ WasServed("GET", <<"/", "a">>)
    /\ ~router.SaveMatchedRoutePath
    /\ Len(out.events) = 1
    /\ out.events[1].handle = "GET /a"
    /\ HasMatchedRoutePath(out.events[1].params.vals)
    /\ "POST" \in DOMAIN router.trees
    /\ StoredAt(router.trees["POST"], <<"/", "a">>) # {}
    /\ \A h \in StoredAt(router.trees["POST"], <<"/", "a">>) : ~h.saved

\* the step is a dispatch or a Lookup whose path is a pattern without ':' or '*'
\* registered under its method
MatchesStatic ==
    /\ out'.op \in {"ServeHTTP", "Lookup"}
    /\ out'.method \in DOMAIN router.trees
    /\ out'.path \in RoutesOf(router.trees[out'.method])
    /\ countParams(out'.path) = 0

\* the step leaves the pool as it was and its handle, or the caller of Lookup,
\* receives nil params
NoParamBuffer ==
    /\ router'.paramsPool = router.paramsPool
    /\ out'.op = "Lookup" => (out'.handle # NoHandle /\ out'.params.nil)
    /\ out'.op = "ServeHTTP" =>
          /\ Len(out'.events) >= 1
          /\ out'.events[1].kind = "handle"
          /\ out'.events[1].params.nil

\* C20 as stated: every dispatch and every Lookup that matches a pattern without
\* ':' or '*' takes no buffer from the pool and gives the handle, or the caller of
\* Lookup, nil params.
C20_AsStated == [][MatchesStatic => NoParamBuffer]_vars

\* C20: every Lookup that matches a pattern without ':' or '*', and every dispatch
\* that matches such a pattern stored without the wrapper of saveMatchedRoutePath
\* (registered while SaveMatchedRoutePath was not set), takes no buffer from the
\* pool and gives the caller of Lookup, or the handle, nil params.
C20_StaticRouteWithoutBuffer ==
    [][(/\ MatchesStatic
        /\ out'.op = "ServeHTTP" =>
               \A h \in StoredAt(router.trees[out'.method], out'.path) : ~h.saved)
       => NoParamBuffer]_vars

\* GET /a, registered without the option, was served while the pool held a buffer:
\* the buffer is still there and the handle received nil params
C20_Witness ==
    /\ WasServed("GET", <<"/", "a">>)
    /\ router.paramsPool # {}
    /\ "GET" \in DOMAIN router.trees
    /\ StoredAt(router.trees["GET"], <<"/", "a">>) # {}
    /\ \A h \in StoredAt(router.trees["GET"], <<"/", "a">>) : ~h.saved
    /\ Len(out.events) = 1
    /\ out.events[1].handle = "GET /a"
    /\ out.events[1].params.nil

\* the orders in which the elements of a set may be taken
OrdersOf(S) ==
    {f \in [1..Cardinality(S) -> S] :
        \A i, j \in 1..Cardinality(S) : i # j => f[i] # f[j]}

\* the trie of method after its patterns are registered in the given order, each
\* with its handle, starting from no trie
RECURSIVE Built(_, _, _)
Built(method, order, k) ==
    IF k = 0 THEN Ok(EmptyNode)
    ELSE LET before == Built(method, order, k - 1)
         IN  IF before.ok
             THEN addRoute(before.node, order[k], HandleFor(method, order[k]))
             ELSE before

\* what a lookup of path finds in the trie n
Finds(n, path) == getValue(n, path, TRUE, 0, NilParams)

\* the paths looked up
LookupPaths == {req[2] : req \in LookupRequests}

\* C21: lookup(M, P) is a function of the registered set.  A registration that
\* succeeds adds its pattern to the patterns its method holds and removes none;
\* after every registration, each order of registering the patterns a method holds
\* succeeds and yields a trie in which every lookup finds the same handle, the same
\* params and the same tsr as in the trie of the router; and what Lookup returns is
\* what the tries of the router determine, so that repeating it returns the same.
C21_LookupIsFunctionOfRoutes ==
    /\ [][HandleStep =>
            Held(router', out'.method)
                = Held(router, out'.method)
                    \cup (IF out'.panicked THEN {} ELSE {out'.path})]_vars
    /\ [](out.op = "Handle" =>
            \A m \in DOMAIN router.trees :
                \A order \in OrdersOf(RoutesOf(router.trees[m])) :
                    LET built == Built(m, order, Len(order))
                    IN  /\ built.ok
                        /\ \A path \in LookupPaths :
                              Finds(built.node, path) = Finds(router.trees[m], path))
    /\ []((out.op = "Lookup" /\ ~out.panicked /\ out.method \in DOMAIN router.trees) =>
            LET v == Finds(router.trees[out.method], out.path)
            IN  /\ out.handle = v.handle
                /\ out.tsr = v.tsr
                /\ v.handle # NoHandle => out.params.vals = v.ps.vals)

\* GET /a, GET /u/:n and GET /u/:n/x are registered, the child u of the root has
\* moved ahead of the child a, and the lookup of /u/g/x returned the handle of
\* /u/:n/x with n = g
C21_Witness ==
    /\ LookedUp("GET", <<"/", "u", "/", "g", "/", "x">>)
    /\ Held(router, "GET")
          = {<<"/", "a">>, <<"/", "u", "/", ":", "n">>,
             <<"/", "u", "/", ":", "n", "/", "x">>}
    /\ router.trees["GET"].indices = <<"u", "a">>
    /\ out.handle.name = "GET /u/:n/x"
    /\ out.params.vals = <<Param(<<"n">>, <<"g">>)>>

\* the positions of the params with the key name
Positions(ps, name) == {k \in DOMAIN ps : ps[k].Key = name}

\* C22: ByName(name) returns the value of the first param, in the order of the
\* list, whose key is name, and the empty string when no param has that key.
C22_ByNameFirstMatch ==
    out.op = "ByName" =>
        IF Positions(out.params, out.name) = {}
        THEN out.value = <<>>
        ELSE \E k \in Positions(out.params, out.name) :
                /\ \A j \in Positions(out.params, out.name) : k <= j
                /\ out.value = out.params[k].Value

\* ByName("n") was called on params holding the key n twice, with two values, after
\* a param of another key, and returned the first of the two
C22_Witness ==
    /\ out.op = "ByName"
    /\ out.name = <<"n">>
    /\ out.params = <<Param(<<"p">>, <<"h">>), Param(<<"n">>, <<"g">>),
                      Param(<<"n">>, <<"h">>)>>
    /\ out.value = <<"g">>

\* whether a path ends in "/*filepath"
EndsInFilepath(path) ==
    /\ Len(path) >= Len(FilepathSuffix)
    /\ \A k \in 1..Len(FilepathSuffix) :
          path[Len(path) - Len(FilepathSuffix) + k] = FilepathSuffix[k]

\* the step is a call of ServeFiles: one stopped by its check, or one that went on
\* to register its handle
ServeFilesStep ==
    \/ out'.op = "ServeFiles"
    \/ out'.op = "Handle" /\ out'.handle = FileServer

\* the step adds no route and removes none
SameRoutes ==
    \A m \in DOMAIN router.trees \cup DOMAIN router'.trees :
        Held(router', m) = Held(router, m)

\* the step adds the route (GET, path of the call) with the handle of ServeFiles
\* and no other route
AddsFileRoute ==
    /\ ~out'.panicked
    /\ out'.path \notin Held(router, "GET")
    /\ Held(router', "GET") = Held(router, "GET") \cup {out'.path}
    /\ StoredFor(router', "GET", out'.path) = {FileServer.name}
    /\ \A m \in DOMAIN router'.trees \ {"GET"} :
          m \in DOMAIN router.trees /\ Held(router', m) = Held(router, m)

\* a request served by the handle of ServeFiles: the file it serves is named by the
\* param filepath, the rest of the request path from the '/' before the catch-all
FileServed ==
    (out.op = "ServeHTTP" /\ Len(out.events) >= 1
        /\ out.events[1].kind = "handle"
        /\ out.events[1].handle = FileServer.name) =>
      \E pattern \in Held(router, "GET") :
          /\ EndsInFilepath(pattern)
          /\ Take(out.path, Len(pattern) - 9) = Take(pattern, Len(pattern) - 9)
          /\ ByName(out.events[1].params.vals, SubSeq(FilepathSuffix, 3, 10))
                = Drop(out.path, Len(pattern) - 10)

\* C23 as stated: ServeFiles panics for every path that does not end in
\* "/*filepath" and then leaves the router unchanged; for every path that ends in
\* "/*filepath" it registers exactly one route, under GET, whose handle serves the
\* file named by the captured param filepath.
C23_AsStated ==
    /\ [][ServeFilesStep =>
            IF EndsInFilepath(out'.path) THEN AddsFileRoute
            ELSE out'.panicked /\ router' = router]_vars
    /\ []FileServed

\* C23: ServeFiles panics for every path that does not end in "/*filepath" and then
\* leaves the router unchanged; for a path that ends in "/*filepath" it registers
\* the path under GET as Handle does: when that registration succeeds exactly one
\* route is added, under GET, whose handle serves the file named by the captured
\* param filepath, and when it fails no route is added.
C23_ServeFiles ==
    /\ [][ServeFilesStep =>
            IF EndsInFilepath(out'.path)
            THEN IF out'.panicked THEN SameRoutes ELSE AddsFileRoute
            ELSE out'.panicked /\ router' = router]_vars
    /\ []FileServed

\* ServeFiles("/s/*filepath") registered its route and GET /s/a/b was served the
\* file /a/b
C23_Witness ==
    /\ WasServed("GET", <<"/", "s", "/", "a", "/", "b">>)
    /\ Held(router, "GET") = {<<"/", "s">> \o FilepathSuffix}
    /\ Len(out.events) = 1
    /\ out.events[1].handle = FileServer.name
    /\ ByName(out.events[1].params.vals, SubSeq(FilepathSuffix, 3, 10))
          = <<"/", "a", "/", "b">>

\* the list of allowed methods for the request just served: the cached list for
\* the path "*", the list of the other methods with a handle for the path otherwise
AllowFor ==
    IF out.path = Star THEN router.globalAllowed
    ELSE AllowList(OtherMethods(out.path, out.method))

\* the request just served got the reply of the method-not-allowed check: the 405
\* with the list if HandleMethodNotAllowed is set and the list is not empty,
\* NotFound otherwise
MethodNotAllowedCheck ==
    /\ Len(out.events) = 1
    /\ IF router.HandleMethodNotAllowed /\ AllowFor # ""
       THEN out.events[1].kind = "MethodNotAllowed" /\ out.events[1].allow = AllowFor
       ELSE out.events[1].kind = "NotFound"

\* the request just served got the reply of the OPTIONS check: the automatic reply
\* with the list if the list is not empty, NotFound otherwise
OptionsCheck ==
    /\ Len(out.events) = 1
    /\ IF AllowFor # ""
       THEN out.events[1].kind = "Options" /\ out.events[1].allow = AllowFor
       ELSE out.events[1].kind = "NotFound"

\* the request just served had no trie for its method
WithoutTrie == out.op = "ServeHTTP" /\ out.method \notin DOMAIN router.trees

\* C24 as stated: when no trie exists for the method of the request, the dispatch
\* calls no handle, issues no redirect and goes to the method-not-allowed check,
\* skipping the automatic OPTIONS reply.
C24_AsStated == WithoutTrie => (~out.panicked /\ MethodNotAllowedCheck)

\* C24: when no trie exists for the method of the request, the dispatch calls no
\* handle and issues no redirect; an OPTIONS request served with HandleOptions set
\* goes to the check of the automatic OPTIONS reply, every other request to the
\* method-not-allowed check.
C24_WithoutTrie ==
    WithoutTrie =>
        /\ ~out.panicked
        /\ IF out.method = "OPTIONS" /\ router.HandleOptions THEN OptionsCheck
           ELSE MethodNotAllowedCheck

\* OPTIONS /a was served with HandleOptions set while GET holds /a and OPTIONS has
\* no trie: the automatic reply lists GET, OPTIONS
C24_Witness ==
    /\ WasServed("OPTIONS", <<"/", "a">>)
    /\ "OPTIONS" \notin DOMAIN router.trees
    /\ router.HandleOptions
    /\ Len(out.events) = 1
    /\ out.events[1].kind = "Options"
    /\ out.events[1].allow = "GET, OPTIONS"

\* the request just served may be redirected: its method has a trie without a
\* handle for it, the method is not CONNECT and the path is not "/"
Redirectable ==
    /\ out.method \in DOMAIN router.trees
    /\ Looked.handle = NoHandle
    /\ out.method # "CONNECT" /\ out.path # <<"/">>

\* the trailing-slash redirect applies to the request just served
TrailingSlashApplies == Redirectable /\ router.RedirectTrailingSlash /\ Looked.tsr

\* the case-insensitive match of the cleaned path of the request just served
Fixed ==
    findCaseInsensitivePath(router.trees[out.method], CleanPath(out.path),
                            router.RedirectTrailingSlash)

\* the fixed-path redirect applies to the request just served
FixedPathApplies == Redirectable /\ router.RedirectFixedPath /\ Fixed.found

\* the automatic OPTIONS reply applies to the request just served
OptionsApplies == out.method = "OPTIONS" /\ router.HandleOptions /\ AllowFor # ""

\* the 405 reply applies to the request just served
MethodNotAllowedApplies ==
    /\ ~(out.method = "OPTIONS" /\ router.HandleOptions)
    /\ router.HandleMethodNotAllowed /\ AllowFor # ""

\* C25: the dispatch produces the first outcome that applies in the order registered
\* handle, trailing-slash redirect, fixed-path redirect, automatic OPTIONS reply or
\* 405 reply, NotFound: an automatic OPTIONS reply or a 405 reply only when neither
\* a handle nor a redirect applies, and NotFound only when none of the others does.
C25_FixedOrder ==
    out.op = "ServeHTTP" =>
        /\ Len(out.events) >= 1
        /\ IF Matches(router, out.method, out.path)
           THEN out.events[1].kind = "handle"
           ELSE /\ Len(out.events) = 1
                /\ IF TrailingSlashApplies
                   THEN /\ out.events[1].kind = "redirect"
                        /\ out.events[1].location \in SlashVariants(out.path)
                   ELSE IF FixedPathApplies
                   THEN /\ out.events[1].kind = "redirect"
                        /\ out.events[1].location = Fixed.path
                   ELSE IF OptionsApplies
                   THEN out.events[1].kind = "Options"
                   ELSE IF MethodNotAllowedApplies
                   THEN out.events[1].kind = "MethodNotAllowed"
                   ELSE out.events[1].kind = "NotFound"

\* GET /a/ was redirected to /a although the 405 reply applied as well: POST holds
\* /a/ and HandleMethodNotAllowed is set
C25_Witness ==
    /\ WasServed("GET", <<"/", "a", "/">>)
    /\ router.HandleMethodNotAllowed
    /\ OtherMethods(<<"/", "a", "/">>, "GET") = {"POST"}
    /\ Len(out.events) = 1
    /\ out.events[1].kind = "redirect"
    /\ out.events[1].location = <<"/", "a">>

\* the response outcomes of a dispatch
Outcomes == {"handle", "redirect", "Options", "MethodNotAllowed", "NotFound"}

\* the dispatch failed: a panic reached the caller of ServeHTTP or PanicHandler
DispatchFailed == out.panicked \/ "PanicHandler" \in Kinds(out.events)

\* every call of Handle that reached a trie registered its route: the priority of
\* a root counts the calls, Held the routes
AllRegistered ==
    \A m \in DOMAIN router.trees : router.trees[m].priority = Cardinality(Held(router, m))

\* C26: in every state reached by registrations and dispatches in any order, a
\* dispatch produces exactly one response outcome (a handle called, a redirect, the
\* automatic OPTIONS reply, the 405 reply or NotFound), and it fails only when the
\* handle of the user panicked.  Stated for the routers whose registrations all
\* succeeded.
C26_DispatchNeverFails ==
    out.op = "ServeHTTP" /\ AllRegistered =>
        IF DispatchFailed THEN out.raised
        ELSE Len(out.events) = 1 /\ out.events[1].kind \in Outcomes

\* the params the last call delivered: those Lookup returned, those the handle of
\* a dispatch was called with
Delivered ==
    IF out.op = "Lookup" THEN {out.params}
    ELSE IF out.op = "ServeHTTP"
    THEN {out.events[k].params : k \in {j \in DOMAIN out.events : out.events[j].kind = "handle"}}
    ELSE {}

\* C27: every buffer a lookup obtains from the pool has a capacity of at least the
\* current maxParams of the router, and the params captured into it stay within
\* that capacity, after registrations and dispatches in any order.  Stated for the
\* routers whose registrations all succeeded.
C27_BufferCapacity ==
    AllRegistered =>
        \A ps \in Delivered :
            ~ps.nil => ps.cap >= router.maxParams /\ Len(ps.vals) <= ps.cap

\* the step is a dispatch that took a buffer from the pool and did not fail
DispatchWithBuffer ==
    /\ out'.op = "ServeHTTP"
    /\ serveGetsParams(router, out'.method, out'.path)
    /\ ~out'.panicked /\ "PanicHandler" \notin Kinds(out'.events)

\* C28: a buffer a dispatch takes from the pool is back in the pool when the
\* request completes, also when the lookup captured a parameter and found no
\* handle (the dispatch ending in a redirect, the 405 reply or NotFound).
C28_BufferReleased ==
    [][DispatchWithBuffer =>
           \E buf \in PoolGet(router) :
               /\ ~buf.nil
               /\ router'.paramsPool = putParams(taken(router.paramsPool, buf), buf)]_vars

\* the params the lookup of the last request captures, in the order of capture
CapturedInOrder == getValue(router.trees[out.method], out.path, TRUE, 0, NilParams).ps.vals

\* the last call was a dispatch that called a handle stored with its route path
CalledWithRoutePath ==
    /\ out.op = "ServeHTTP"
    /\ HandleEvents(out.events) # <<>>
    /\ Looked.handle.saved

\* the entry of the matched route path of the last request
MatchedEntry == Param(MatchedRoutePathParam, Looked.handle.route)

\* C29 as stated: the ($matchedRoutePath, pattern) entry is the first of the params
\* the handle receives, ahead of the captured params in their order of capture.
C29_AsStated ==
    CalledWithRoutePath =>
        HandleEvents(out.events)[1].params.vals = <<MatchedEntry>> \o CapturedInOrder

\* C29: a handle stored with its route path receives the captured params in their
\* order of capture, followed by the ($matchedRoutePath, pattern) entry as the last
\* element.
C29_RoutePathLast ==
    CalledWithRoutePath =>
        HandleEvents(out.events)[1].params.vals = Append(CapturedInOrder, MatchedEntry)

\* GET /g/h was served by the handle of /:n/:p stored with its route path: two
\* captured params, then the entry
C29_Witness ==
    /\ CalledWithRoutePath
    /\ out.path = <<"/", "g", "/", "h">>
    /\ LET vals == HandleEvents(out.events)[1].params.vals
       IN  /\ Len(vals) = 3
           /\ vals[1] = Param(<<"n">>, <<"g">>)
           /\ vals[2] = Param(<<"p">>, <<"h">>)
           /\ vals[3].Key = MatchedRoutePathParam

\* the step is a call of Handle that registered its route
RegistrationSucceeds == out'.op = "Handle" /\ ~out'.panicked

\* the requests (method, path) router r resolves to a handle
Resolved(r) ==
    {req \in (DOMAIN r.trees) \X LookupPaths : Finds(r.trees[req[1]], req[2]).handle # NoHandle}

\* C30: registration is monotonic: after a further successful registration every
\* (method, path) that resolved to a handle resolves to the same handle with the
\* same params; no successful registration removes or shadows a match.
C30_RegistrationMonotonic ==
    [][RegistrationSucceeds =>
           \A req \in Resolved(router) :
               LET before == Finds(router.trees[req[1]], req[2])
                   after  == Finds(router'.trees[req[1]], req[2])
               IN  after.handle = before.handle /\ after.ps.vals = before.ps.vals]_vars

\* /a/ and /u/:n were registered and then /a, which splits the node of /a/ and moves
\* the parameter node one level down; /a/ and /u/g resolve, and /a now does
C30_Witness ==
    /\ out.op = "Handle" /\ ~out.panicked /\ out.path = <<"/", "a">>
    /\ Held(router, "GET") = {<<"/", "a">>, <<"/", "a", "/">>, <<"/", "u", "/", ":", "n">>}
    /\ {<<"GET", <<"/", "a", "/">>>>, <<"GET", <<"/", "u", "/", "g">>>>,
        <<"GET", <<"/", "a">>>>} \subseteq Resolved(router)

\* the step is a call of Handle that failed inside the insertion into the trie
InsertionFails == HandleStep /\ out'.panicked

\* what router r finds for the request (method, path): nothing without a trie
Resolution(r, method, path) ==
    IF method \in DOMAIN r.trees THEN Finds(r.trees[method], path)
    ELSE Missed(NilParams, FALSE)

\* C33: a call of Handle that fails inside the insertion into the trie (a pattern
\* the trie rejects, a route in conflict) leaves the router as it was: the methods
\* that have a trie, the server-wide allow list, maxParams and what every lookup
\* finds, also when the call was the first one for its method.
C33_FailedRegistrationLeavesRouter ==
    [][InsertionFails =>
           /\ DOMAIN router'.trees = DOMAIN router.trees
           /\ router'.globalAllowed = router.globalAllowed
           /\ router'.maxParams = router.maxParams
           /\ \A req \in RegistrationRequests :
                  Resolution(router', req[1], req[2]) = Resolution(router, req[1], req[2])
      ]_vars

\* the methods an Allow list names: the list is the ascending, ", "-joined list of
\* a set of methods
Named(allow) ==
    LET listOf(S) == LET in(m) == m \in S IN Join(SelectSeq(AsciiAscending, in))
        sets      == {S \in SUBSET {"CONNECT", "GET", "OPTIONS", "POST"} : listOf(S) = allow}
    IN  UNION sets

\* C34: the Allow list handed to the MethodNotAllowed callback, or set by the
\* default 405 reply, never names the method of the request that is rejected, for
\* every method, OPTIONS too, and every path, "*" too.
C34_AllowWithoutRequestMethod ==
    out.op = "ServeHTTP" =>
        \A k \in DOMAIN out.events :
            out.events[k].kind = "MethodNotAllowed" =>
                /\ Named(out.events[k].allow) # {}
                /\ out.method \notin Named(out.events[k].allow)

\* the registration state of router r
RegistrationState(r) ==
    [trees |-> r.trees, maxParams |-> r.maxParams, globalAllowed |-> r.globalAllowed]

\* registration state changes only inside a registration call
OnlyRegistrationWrites ==
    RegistrationState(router') # RegistrationState(router) => out'.op \in {"Handle", "ServeFiles"}

\* values of the cached list other than those the routers of the environment hold
OtherLists == {"", "CONNECT, OPTIONS"}

\* The step is a dispatch that does not read the cached list: whatever the cache
\* held, a dispatch of the same request could have ended as this one did.
WithoutReadingCache ==
    \A list \in OtherLists :
        \E buf \in PoolGet(router) \cup {NoBuffer}, ord \in MapOrders(router.trees),
           handlerPanics \in BOOLEAN :
            serve([router EXCEPT !.globalAllowed = list], out'.method, out'.path, buf,
                  ord, handlerPanics).events = out'.events

\* C32 as stated: ServeHTTP and Lookup never modify the tries, maxParams and the
\* cached server-wide allow list, which change only inside a registration call, and
\* a dispatch reads the cache only for an OPTIONS request to "*".
C32_AsStated ==
    /\ [][OnlyRegistrationWrites]_vars
    /\ [][(out'.op = "ServeHTTP" /\ ~(out'.method = "OPTIONS" /\ out'.path = Star))
             => WithoutReadingCache]_vars

\* C32: ServeHTTP and Lookup never modify the tries, maxParams and the cached
\* server-wide allow list, which change only inside a registration call, and a
\* dispatch reads the cache only for a request to "*", of whatever method.
C32_CacheReadForStar ==
    /\ [][OnlyRegistrationWrites]_vars
    /\ [][(out'.op = "ServeHTTP" /\ out'.path # Star) => WithoutReadingCache]_vars

\* GET * was answered with the 405 reply carrying the cached list of a router that
\* holds routes under GET and POST
C32_Witness ==
    /\ WasServed("GET", Star)
    /\ Len(out.events) = 1
    /\ out.events[1].kind = "MethodNotAllowed"
    /\ out.events[1].allow = router.globalAllowed
    /\ router.globalAllowed = "GET, OPTIONS, POST"

\* how ServeHTTP may end for the request of goroutine i served alone on the router
\* as registered
Alone(req) ==
    {[events |-> res.events, panicked |-> res.panicked] :
        res \in {serve(router, req.method, req.path, buf, ord, req.handlerPanics) :
                    buf \in (IF serveGetsParams(router, req.method, req.path)
                             THEN PoolGet(router) ELSE {NoBuffer}),
                    ord \in MapOrders(router.trees)}}

\* C31: once the registrations are complete, concurrent dispatches interleaved in
\* any way give every request the outcome (the handle called and its params, the
\* redirect and its code, or the error reply) it has when served alone on the same
\* router.
C31_ConcurrentDispatches ==
    out.op = "Dispatch" =>
        \A i \in 1..MaxRequests :
            out.reqs[i].pc = "done" =>
                [events |-> out.reqs[i].events, panicked |-> out.reqs[i].panicked]
                    \in Alone(out.reqs[i])

\* GET /u/g and GET /u/h were in flight together, each holding a buffer, the buffer
\* of one taken from the pool; the first has finished with its own param while the
\* second is about to call its handle
C31_Witness ==
    /\ out.op = "Dispatch"
    /\ out.reqs[1].pc = "done" /\ out.reqs[1].path = <<"/", "u", "/", "g">>
    /\ Len(out.reqs[1].events) = 1
    /\ out.reqs[1].events[1].kind = "handle"
    /\ out.reqs[1].events[1].params.vals[1] = Param(<<"n">>, <<"g">>)
    /\ out.reqs[2].pc = "call" /\ out.reqs[2].path = <<"/", "u", "/", "h">>
    /\ out.reqs[2].buf # 0
    /\ out.pool # {}
=============================================================================
